---- MODULE Spec2Model ----
(***************************************************************************)
(* A model of the Single-Visit-Mosaic sequencer of drizzlepac              *)
(* (drizzlepac/hapsequencer.py): run_hap_processing and the stages it      *)
(* drives (create_drizzle_products, create_catalog_products,               *)
(* run_align_to_gaia, delete_ramp_exposures, update_wcs_in_visit).         *)
(*                                                                         *)
(* File names are records [kind, det, filt, n]: kind is the suffix of the  *)
(* name ("flc" the input exposure, "drz" a *dr?.fits combined image, "trl" *)
(* a trailer, ...), det and filt the detector and the filter of the        *)
(* product, n the number of the exposure (0 for a filter or total          *)
(* product). Filter names are sequences of characters, so that the         *)
(* substring test of delete_ramp_exposures is computed as the code does.   *)
(***************************************************************************)
EXTENDS Integers, Sequences, FiniteSets, TLC

\* The longest poller file (rows of the visit) the model enumerates.
MaxExp == 2

\* Longest object list handed to delete_ramp_exposures on its own, and the
\* number of successive calls on the same list.
MaxRamp == 3
MaxRampCalls == 2

VARIABLES
    rows,               \* the poller file: one [detector, filters] per exposure
    diagnostic_mode,    \* argument of run_hap_processing
    pc,                 \* the stage run_hap_processing is at
    item,               \* index of total_item in the loop of lines 593-658
    exc,                \* how the try block ended: none | Exception | SystemExit
    total_obj_list,     \* the product tree
    manifest_name,      \* NoName ("" in the code) until it is determined
    found_data,
    product_list,
    mfile_list,
    grism_product_list,
    ramp_product_list,
    catalog_args,       \* the arguments create_catalog_products was called with
    return_value,
    files,              \* the files on disk the run creates, finds or deletes
    manifest,           \* what FINALIZE wrote: [written, lines]
    trailers,           \* trailer files the run log was appended to / copied to
    calls,              \* history: the external operations invoked, in order
    finalized,          \* number of executions of the finally block
    env_error,          \* the switch whose value _get_envvar_switch rejected
    hdus                \* the WCS content of the image files read by the WCS functions

vars == <<rows, diagnostic_mode, pc, item, exc, total_obj_list,
          manifest_name, found_data, product_list, mfile_list,
          grism_product_list, ramp_product_list, catalog_args, return_value,
          files, manifest, trailers, calls, finalized, env_error, hdus>>

-----------------------------------------------------------------------------
(* Names *)

Range(s) == {s[i] : i \in 1..Len(s)}

F555W == <<"f", "5", "5", "5", "w">>
F814W == <<"f", "8", "1", "4", "w">>
FR388N == <<"f", "r", "3", "8", "8", "n">>
G280 == <<"g", "2", "8", "0">>

Detectors == {"uvis", "ir"}
Filters == {F555W, F814W, FR388N, G280}
NoFilter == <<>>

File(kind, det, filt, n) == [kind |-> kind, det |-> det, filt |-> filt, n |-> n]

NoName == File("", "", NoFilter, 0)
LogName == File("log", "", NoFilter, 0)
VisitManifest == File("manifest", "", NoFilter, 0)
SynthManifest == File("manifest", "h0", NoFilter, 0)
GenericManifest == File("manifest.txt", "", NoFilter, 0)

\* Attributes of the product objects (ExposureProduct, FilterProduct, TotalProduct).
FullFilename(e) == File("flc", e.detector, e.filters, e.n)
DrizzleFilename(p) == File("drz", p.detector, p.filters, p.n)
TrlFilename(p) == File("trl", p.detector, p.filters, p.n)
HeaderletFilename(e) == File("hlet", e.detector, e.filters, e.n)
PointCatFilename(p) == File("point-cat", p.detector, p.filters, p.n)
SegmentCatFilename(p) == File("segment-cat", p.detector, p.filters, p.n)
RulesFile(p) == File("rules", p.detector, p.filters, p.n)
PriorManifest(e) == File("prior-manifest", e.detector, e.filters, e.n)
PriorProduct(e) == File("prior-product", e.detector, e.filters, e.n)

-----------------------------------------------------------------------------
(* The product tree *)

Exposure(rs, i) == [n |-> i, detector |-> rs[i].detector, filters |-> rs[i].filters]

\* Grism/prism exposures go to the grism list of the TotalProduct.
IsGrism(filt) == Len(filt) > 0 /\ filt[1] = "g"

RECURSIVE FirstSeen(_)
FirstSeen(s) ==
    IF s = <<>> THEN <<>>
    ELSE LET r == FirstSeen(SubSeq(s, 1, Len(s) - 1))
             x == s[Len(s)]
         IN  IF x \in Range(r) THEN r ELSE Append(r, x)

ExposuresOf(rs) == [i \in 1..Len(rs) |-> Exposure(rs, i)]

FilterProductOf(exps, det, filt) ==
    [n |-> 0, detector |-> det, filters |-> filt,
     edp_list |-> SelectSeq(exps, LAMBDA e : e.detector = det /\ e.filters = filt)]

TotalProductOf(exps, det) ==
    LET direct == SelectSeq(exps, LAMBDA e : e.detector = det /\ ~IsGrism(e.filters))
        filts == FirstSeen([i \in 1..Len(direct) |-> direct[i].filters])
    IN  [n |-> 0, detector |-> det, filters |-> NoFilter,
         edp_list |-> direct,
         fdp_list |-> [k \in 1..Len(filts) |-> FilterProductOf(exps, det, filts[k])],
         grism_edp_list |-> SelectSeq(exps, LAMBDA e : e.detector = det /\ IsGrism(e.filters))]

interpret_obset_input(rs) ==
    LET exps == ExposuresOf(rs)
        dets == FirstSeen([i \in 1..Len(rs) |-> rs[i].detector])
    IN  [k \in 1..Len(dets) |-> TotalProductOf(exps, dets[k])]

-----------------------------------------------------------------------------
(* Python values *)

IntVal(n) == [type |-> "int", val |-> n]
SystemExit(code) == [type |-> "SystemExit", code |-> code]

\* create_catalog_products has not been called: no phot_mode and no switch was read.
NotCalled == [called |-> FALSE, phot_mode |-> "", off |-> {}]

\* No switch has been rejected.
NoSwitch == [name |-> "", value |-> ""]

envvar_bool_dict == [off |-> FALSE, on |-> TRUE, no |-> FALSE, yes |-> TRUE,
                     false |-> FALSE, true |-> TRUE]
envvar_qa_svm == "SVM_QUALITY_TESTING"
envvar_cat_svm == <<"SVM_CATALOG_SBC", "SVM_CATALOG_HRC", "SVM_CATALOG_WFC",
                    "SVM_CATALOG_UVIS", "SVM_CATALOG_IR", "SVM_CATALOG_PC">>

\* The values of an environment variable enumerated ("unset": the variable is
\* not in the environment), and str.lower on them.
EnvValues == {"unset", "on", "off", "maybe", "ON"}
Lower(val) == IF val = "ON" THEN "on" ELSE val

\* _get_envvar_switch(envvar_name, default) when the variable holds val: "raise"
\* for the ValueError, else the switch as True, False or None.
get_envvar_switch(val, default) ==
    IF val = "unset"
      THEN IF default = "None" THEN "None"
           ELSE IF envvar_bool_dict[default] THEN "True" ELSE "False"
    ELSE IF Lower(val) \notin DOMAIN envvar_bool_dict THEN "raise"
    ELSE IF envvar_bool_dict[Lower(val)] THEN "True" ELSE "False"

\* The poller files enumerated. The code never tests the name of a detector and
\* tests a filter name only for "fr" and for the grism/prism elements, so that
\* of the visits that differ by a renaming of the detectors, or of the two
\* plain filters, one is kept: the one that names uvis, and f555w, first.
Canonical(rs) ==
    /\ \A i \in 1..Len(rs) : rs[i].detector = "ir" => \E j \in 1..(i - 1) : rs[j].detector = "uvis"
    /\ \A i \in 1..Len(rs) : rs[i].filters = F814W => \E j \in 1..(i - 1) : rs[j].filters = F555W

RowSeqs ==
    {rs \in UNION {[1..n -> [detector : Detectors, filters : Filters]] : n \in 0..MaxExp} :
        Canonical(rs)}

Init ==
    /\ rows \in RowSeqs
    /\ diagnostic_mode \in BOOLEAN
    /\ pc = "START"
    /\ env_error = NoSwitch
    /\ hdus = <<>>
    /\ item = 1
    /\ exc = "none"
    /\ total_obj_list = <<>>
    /\ manifest_name = NoName
    /\ found_data = FALSE
    /\ product_list = <<>>
    /\ mfile_list = <<>>
    /\ grism_product_list = <<>>
    /\ ramp_product_list = <<>>
    /\ catalog_args = NotCalled
    /\ return_value = IntVal(0)
    /\ files = {LogName} \cup {FullFilename(Exposure(rows, i)) : i \in 1..Len(rows)}
    /\ manifest = [written |-> FALSE, lines |-> <<>>]
    /\ trailers = {}
    /\ calls = <<>>
    /\ finalized = 0

-----------------------------------------------------------------------------
(* The exception handlers of run_hap_processing *)

\* The values of analyze.Ret_code the sequencer exits with.
NO_VIABLE_DATA == 65
KEYWORD_UPDATE_PROBLEM == 15

\* except Exception: return_value = 1
HandleException == IntVal(1)

\* except BaseException: return_value = exc_value, the second item of
\* sys.exc_info(), which is the exception instance raised by sys.exit(code).
HandleBaseException(code) == SystemExit(code)

Event(op, p, status) ==
    [op |-> op, det |-> p.detector, filt |-> p.filters, n |-> p.n, status |-> status]

-----------------------------------------------------------------------------
(* Before the try block *)

\* What reading the six catalog switches in turn ends with: NoSwitch when every
\* value is accepted, else the first switch whose value raises.
CatalogSwitchErrors ==
    {NoSwitch} \cup {[name |-> envvar_cat_svm[i], value |-> val] :
                        i \in 1..Len(envvar_cat_svm),
                        val \in {v \in EnvValues : get_envvar_switch(v, "on") = "raise"}}

\* Line 542: the catalog switches are read before the try block, so that the
\* ValueError of an invalid value leaves run_hap_processing. The accepted
\* values are consulted by create_catalog_products only (line 144), where the
\* model draws them.
ReadCatalogSwitches ==
    /\ pc = "START"
    /\ \E err \in CatalogSwitchErrors :
         /\ env_error' = err
         /\ pc' = IF err = NoSwitch THEN "PARSE_OBSET" ELSE "CONFIG_ERROR"
    /\ UNCHANGED <<hdus, rows, diagnostic_mode, item, exc, total_obj_list, manifest_name,
                   found_data, product_list, mfile_list, grism_product_list,
                   ramp_product_list, catalog_args, return_value, files, manifest,
                   trailers, calls, finalized>>

-----------------------------------------------------------------------------
(* PARSE_OBSET *)

\* interpret_obset_input returns the tree; the manifest name is taken from the
\* first TotalProduct.
ParseObset ==
    /\ pc = "PARSE_OBSET"
    /\ Len(rows) >= 1
    /\ total_obj_list' = interpret_obset_input(rows)
    /\ manifest_name' = VisitManifest
    /\ pc' = "CHECK_DATA"
    /\ UNCHANGED <<hdus, env_error, rows, diagnostic_mode, item, exc, found_data,
                   product_list, mfile_list, grism_product_list, ramp_product_list,
                   catalog_args, return_value, files, manifest, trailers, calls,
                   finalized>>

\* interpret_obset_input raises (unreadable or malformed input, empty table).
ParseObsetRaises ==
    /\ pc = "PARSE_OBSET"
    /\ exc' = "Exception"
    /\ return_value' = HandleException
    /\ pc' = "FINALIZE"
    /\ UNCHANGED <<hdus, env_error, rows, diagnostic_mode, item, total_obj_list,
                   manifest_name, found_data, product_list, mfile_list,
                   grism_product_list, ramp_product_list, catalog_args, files,
                   manifest, trailers, calls, finalized>>

FoundData(tl) == \E k \in 1..Len(tl) : tl[k].edp_list # <<>>

\* Lines 577-590: the visit holds no direct image at all: sys.exit(NO_VIABLE_DATA).
CheckViableData ==
    /\ pc = "CHECK_DATA"
    /\ found_data' = FoundData(total_obj_list)
    /\ IF found_data'
         THEN /\ pc' = "PREPARE"
              /\ UNCHANGED <<exc, return_value>>
         ELSE /\ pc' = "FINALIZE"
              /\ exc' = "SystemExit"
              /\ return_value' = HandleBaseException(NO_VIABLE_DATA)
    /\ UNCHANGED <<hdus, env_error, rows, diagnostic_mode, item, total_obj_list,
                   manifest_name, product_list, mfile_list, grism_product_list,
                   ramp_product_list, catalog_args, files, manifest, trailers,
                   calls, finalized>>

-----------------------------------------------------------------------------
(* EXCLUDE_RAMPS: delete_ramp_exposures *)

ContainsFr(s) == \E i \in 1..(Len(s) - 1) : s[i] = "f" /\ s[i + 1] = "r"

\* while obj_list: obj = obj_list.pop() ...
RECURSIVE RampPop(_, _, _, _)
RampPop(obj_list, temp, ramp, type_of_list) ==
    IF obj_list = <<>> THEN [temp |-> temp, ramp |-> ramp]
    ELSE LET obj == obj_list[Len(obj_list)]
             rest == SubSeq(obj_list, 1, Len(obj_list) - 1)
         IN  IF ~ContainsFr(obj.filters)
               THEN RampPop(rest, Append(temp, obj), ramp, type_of_list)
               ELSE RampPop(rest, temp,
                            IF type_of_list = "EXPOSURE"
                              THEN ramp \o <<FullFilename(obj), TrlFilename(obj)>>
                              ELSE ramp,
                            type_of_list)

\* while temp: obj_list.append(temp.pop())
RECURSIVE RampRefill(_, _)
RampRefill(obj_list, temp) ==
    IF temp = <<>> THEN obj_list
    ELSE RampRefill(Append(obj_list, temp[Len(temp)]), SubSeq(temp, 1, Len(temp) - 1))

\* A faulty variant: the kept objects are returned as they were popped.
delete_ramp_exposures_as_popped(obj_list, type_of_list) ==
    LET r == RampPop(obj_list, <<>>, <<>>, type_of_list)
    IN  [obj_list |-> r.temp, ramp_filenames_list |-> r.ramp]

delete_ramp_exposures(obj_list, type_of_list) ==
    LET r == RampPop(obj_list, <<>>, <<>>, type_of_list)
    IN  [obj_list |-> RampRefill(<<>>, r.temp), ramp_filenames_list |-> r.ramp]

-----------------------------------------------------------------------------
(* RECONCILE_GRISM_WCS: update_wcs_in_visit and collect_wcs_names *)

\* The WCS solution names an image may hold (keyword and headerlet names).
IDC_GSC240 == <<"I", "D", "C", "_", "2", "7", "3", "1", "4", "5", "0", "p", "i",
                "-", "G", "S", "C", "2", "4", "0">>
IDC_PLAIN == <<"I", "D", "C", "_", "2", "7", "3", "1", "4", "5", "0", "p", "i">>
OPUS == <<"O", "P", "U", "S">>
NoWcs == <<>>
WcsNames == {IDC_GSC240, IDC_PLAIN, OPUS}

wcs_preference ==
    << <<"I", "D", "C", "_", "?", "?", "?", "?", "?", "?", "?", "?", "?",
         "-", "G", "S", "C", "2", "4", "0">>,
       <<"I", "D", "C", "_", "?", "?", "?", "?", "?", "?", "?", "?", "?">> >>

\* fnmatch of a name against a pattern whose only wildcard is '?'.
fnmatch(name, pat) ==
    /\ Len(name) = Len(pat)
    /\ \A i \in 1..Len(pat) : pat[i] = "?" \/ pat[i] = name[i]

fnmatch_filter(names, pat) == {nm \in names : fnmatch(nm, pat)}

\* A faulty preference: the looser pattern is tried first.
PreferredMatches_loose_first(names) ==
    IF fnmatch_filter(names, wcs_preference[2]) # {}
      THEN fnmatch_filter(names, wcs_preference[2])
      ELSE fnmatch_filter(names, wcs_preference[1])

\* The matches of the first preference pattern that has any: match_list of
\* the loop over wcs_preference ({} when no pattern matches). The names
\* enumerated give each pattern one match at most, which is match_list[0].
PreferredMatches(names) ==
    IF fnmatch_filter(names, wcs_preference[1]) # {}
      THEN fnmatch_filter(names, wcs_preference[1])
      ELSE fnmatch_filter(names, wcs_preference[2])

\* collect_wcs_names(edp_list, image_type), wn[n] the names image n holds, on
\* the files on disk fs. exit: sys.exit(1) was called at image number i.
RECURSIVE collect_wcs_names_from(_, _, _, _, _)
collect_wcs_names_from(edp_list, image_type, wn, i, acc) ==
    IF i > Len(edp_list) \/ acc.exit THEN acc
    ELSE LET edp == edp_list[i]
             all_wcs_names == wn[edp.n]
         IN  IF all_wcs_names # {}
               THEN LET s == IF ~acc.exist_image_set THEN all_wcs_names
                             ELSE acc.image_wcs_set \cap all_wcs_names
                    IN  collect_wcs_names_from(edp_list, image_type, wn, i + 1,
                            [acc EXCEPT !.image_wcs_set = s,
                                        !.exist_image_set = TRUE,
                                        !.exit = (s = {})])
               ELSE collect_wcs_names_from(edp_list, image_type, wn, i + 1,
                            [acc EXCEPT !.skip_image_list = @ \cup {FullFilename(edp)},
                                        !.files = IF image_type = "GRISM"
                                                    THEN @ \ {FullFilename(edp)}
                                                    ELSE @])

collect_wcs_names(edp_list, image_type, wn, fs) ==
    collect_wcs_names_from(edp_list, image_type, wn, 1,
        [image_wcs_set |-> {}, exist_image_set |-> FALSE, skip_image_list |-> {},
         exit |-> FALSE, files |-> fs])

\* Lines 1044-1052: os.remove of every grism image; the first image that is no
\* longer on disk raises OSError, which is passed, and sys.exit(1) follows.
RECURSIVE RemoveGrism(_, _, _)
RemoveGrism(grism_edp_list, i, fs) ==
    IF i > Len(grism_edp_list) THEN [files |-> fs, oserror |-> FALSE]
    ELSE IF FullFilename(grism_edp_list[i]) \notin fs THEN [files |-> fs, oserror |-> TRUE]
    ELSE RemoveGrism(grism_edp_list, i + 1, fs \ {FullFilename(grism_edp_list[i])})

\* The (filename, trailer) entries of the grism images not in the skip list.
RECURSIVE GrismProducts(_, _)
GrismProducts(grism_edp_list, skip) ==
    IF grism_edp_list = <<>> THEN <<>>
    ELSE LET g == grism_edp_list[1]
             rest == GrismProducts(Tail(grism_edp_list), skip)
         IN  IF FullFilename(g) \notin skip
               THEN <<FullFilename(g), TrlFilename(g)>> \o rest
               ELSE rest

\* update_wcs_in_visit(tdp): the result is [exit, grism_edp_list, files,
\* grism_product_list, updated, final_wcsname, direct_refreshed], exit telling
\* that sys.exit(1) ended the call, updated the images whose active WCS
\* update_active_wcs was called on with final_wcsname, direct_refreshed that the
\* loop of lines 1063-1077 over the direct images was executed.
update_wcs_in_visit(tdp, wn, fs) ==
    LET g == collect_wcs_names(tdp.grism_edp_list, "GRISM", wn, fs)
        abort(f, refreshed) ==
            [exit |-> TRUE, grism_edp_list |-> tdp.grism_edp_list, files |-> f,
             grism_product_list |-> <<>>, updated |-> {}, final_wcsname |-> NoWcs,
             direct_refreshed |-> refreshed]
        done(gl, f, gpl, upd, final, refreshed) ==
            [exit |-> FALSE, grism_edp_list |-> gl, files |-> f,
             grism_product_list |-> gpl, updated |-> upd, final_wcsname |-> final,
             direct_refreshed |-> refreshed]
    IN  IF g.exit THEN abort(g.files, FALSE)
        ELSE IF PreferredMatches(g.image_wcs_set) = {}
          THEN LET r == RemoveGrism(tdp.grism_edp_list, 1, g.files)
               IN  IF r.oserror THEN abort(r.files, FALSE)
                   ELSE done(<<>>, r.files, <<>>, {}, NoWcs, FALSE)
        ELSE LET d == collect_wcs_names(tdp.edp_list, "DIRECT", wn, g.files)
                 common == g.image_wcs_set \cap d.image_wcs_set
             IN  IF d.exit THEN abort(d.files, TRUE)
                 ELSE IF common = {} \/ PreferredMatches(common) = {}
                   THEN done(tdp.grism_edp_list, d.files, <<>>, {}, NoWcs, TRUE)
                 ELSE done(tdp.grism_edp_list, d.files,
                           GrismProducts(tdp.grism_edp_list, g.skip_image_list),
                           ({FullFilename(tdp.grism_edp_list[i]) : i \in 1..Len(tdp.grism_edp_list)}
                               \ g.skip_image_list)
                           \cup ({FullFilename(tdp.edp_list[i]) : i \in 1..Len(tdp.edp_list)}
                                 \ d.skip_image_list),
                           CHOOSE nm \in PreferredMatches(common) : TRUE,
                           TRUE)

-----------------------------------------------------------------------------
(* The WCS content of an image file: update_active_wcs, archive_alternate_wcs *)

\* What the WCS functions read and write in one FLT/FLC file: wcsname is the
\* active (primary) WCSNAME of the SCI header (NoWcs: the file has no WCS
\* solution), alternates the names under the alternate keys other than 'O',
\* opus tells that key 'O' holds the OPUS solution, headerlets the WCSNAMEs of
\* the headerlet extensions, unrestorable the names whose headerlet
\* restore_from_headerlet fails on, drizcorr the DRIZCORR keyword, updatewcs
\* that updatewcs has rewritten the file, hdrname that HDRNAME is populated,
\* fit_keywords that NMATCHES and the other fit-quality keywords are present.
Hdu(wcsname, alternates, opus, headerlets, unrestorable, drizcorr) ==
    [wcsname |-> wcsname, alternates |-> alternates, opus |-> opus,
     headerlets |-> headerlets, unrestorable |-> unrestorable, drizcorr |-> drizcorr,
     updatewcs |-> FALSE, hdrname |-> FALSE, fit_keywords |-> FALSE]

\* Line 1187: wcsutil.altwcs.wcsnames(filename, ext=1).values().
keyword_wcs_names(hdu) ==
    (IF hdu.wcsname = NoWcs THEN {} ELSE {hdu.wcsname})
        \cup hdu.alternates \cup (IF hdu.opus THEN {OPUS} ELSE {})

\* Lines 1187-1191: the keyword names and the headerlet names of the file.
all_wcs_names(hdu) == keyword_wcs_names(hdu) \cup hdu.headerlets

\* Line 1265: the key of wcsname in the SCI header, ' ' for the active WCS.
getKeyFromName(hdu, wcsname) ==
    IF hdu.wcsname = wcsname THEN " "
    ELSE IF wcsname \in hdu.alternates THEN "A"
    ELSE IF hdu.opus /\ wcsname = OPUS THEN "O"
    ELSE "None"

\* Lines 1347-1349 and 1358-1364: re.compile(pattern_wcs + "-[\d]").match(wcsname),
\* the name of a 'duplicate' of the solution a headerlet holds.
Digit == {"0", "1", "2", "3", "4", "5", "6", "7", "8", "9"}
pattern_match(pattern_wcs, wcsname) ==
    /\ Len(wcsname) >= Len(pattern_wcs) + 2
    /\ SubSeq(wcsname, 1, Len(pattern_wcs)) = pattern_wcs
    /\ wcsname[Len(pattern_wcs) + 1] = "-"
    /\ wcsname[Len(pattern_wcs) + 2] \in Digit

\* Lines 1351-1364: the name looked up among the headerlets, which is the name
\* of any headerlet the solution is a duplicate of.
reset_wcsnames(wcsname, headerlet_wcsnames) ==
    IF \E pattern_wcs \in headerlet_wcsnames : pattern_match(pattern_wcs, wcsname)
      THEN {pattern_wcs \in headerlet_wcsnames : pattern_match(pattern_wcs, wcsname)}
      ELSE {wcsname}

\* A faulty archive: only the active solution is looked at.
archive_alternate_wcs_active_only(hdu) ==
    [hdu EXCEPT !.headerlets =
        @ \cup {wcsname \in (IF hdu.wcsname = NoWcs THEN {} ELSE {hdu.wcsname}) :
                   reset_wcsnames(wcsname, hdu.headerlets) \cap hdu.headerlets = {}}]

\* archive_alternate_wcs: every solution of the SCI header, the active one
\* included and the one under key 'O' excluded, that is neither the WCSNAME of
\* a headerlet nor a duplicate of one is archived as a headerlet. The list of
\* headerlets is read once, before the loop.
archive_alternate_wcs(hdu) ==
    [hdu EXCEPT !.headerlets =
        @ \cup {wcsname \in (IF hdu.wcsname = NoWcs THEN {} ELSE {hdu.wcsname})
                                \cup hdu.alternates :
                   reset_wcsnames(wcsname, hdu.headerlets) \cap hdu.headerlets = {}}]

\* Lines 1511-1526: the name is of the form <starting WCS>-<catalog>.
is_apriori(wcsname) ==
    \E i \in 1..Len(wcsname) :
        /\ wcsname[i] = "-"
        /\ \A j \in 1..Len(wcsname) : wcsname[j] = "-" => j = i
        /\ \/ i + 3 <= Len(wcsname) /\ SubSeq(wcsname, i + 1, i + 3) \in {<<"G", "S", "C">>, <<"H", "S", "C">>}
           \/ i + 4 <= Len(wcsname) /\ SubSeq(wcsname, i + 1, i + 4) = <<"G", "A", "I", "A">>

\* A faulty restore: reset_keywords_apriori is left out.
restore_from_headerlet_keeps_keywords(hdu, wcsname) ==
    [hdu EXCEPT !.wcsname = wcsname, !.fit_keywords = TRUE]

\* Lines 1291-1306: the headerlet is restored as the active WCS, NMATCHES is
\* written and reset_keywords_apriori deletes the fit-quality keywords of an
\* 'a priori' solution.
restore_from_headerlet(hdu, wcsname) ==
    [hdu EXCEPT !.wcsname = wcsname, !.fit_keywords = ~is_apriori(wcsname)]

\* A faulty update: the key of the target is not tested and the headerlet is
\* restored whenever there is one.
update_active_wcs_always_restore(hdu, wcsname) ==
    LET archived == archive_alternate_wcs(hdu)
    IN  IF wcsname \notin archived.headerlets THEN [hdu |-> archived, status |-> "raised"]
        ELSE IF wcsname \in archived.unrestorable THEN [hdu |-> archived, status |-> "failed"]
        ELSE [hdu |-> restore_from_headerlet(archived, wcsname), status |-> "restored"]

\* update_active_wcs(filename, wcsname): the file afterwards and how the call
\* ended: "active" (nothing to restore), "restored", "failed" (the restore
\* raised and the bare except logged it), "raised" (line 1284: wcsname is the
\* WCSNAME of no headerlet and list.index raises ValueError out of the call).
update_active_wcs(hdu, wcsname) ==
    LET key == getKeyFromName(hdu, wcsname)
        archived == archive_alternate_wcs(hdu)
    IN  IF key = " " THEN [hdu |-> archived, status |-> "active"]
        ELSE IF wcsname \notin archived.headerlets THEN [hdu |-> archived, status |-> "raised"]
        ELSE IF wcsname \in archived.unrestorable THEN [hdu |-> archived, status |-> "failed"]
        ELSE [hdu |-> restore_from_headerlet(archived, wcsname), status |-> "restored"]

\* A faulty refresh: updatewcs is run whatever DRIZCORR says.
refresh_direct_unconditional(hdu) ==
    [hdu EXCEPT !.updatewcs = TRUE, !.hdrname = TRUE]

\* Lines 1063-1077: updatewcs of a direct image whose DRIZCORR is OMIT, and
\* _verify_sci_hdrname.
refresh_direct(hdu) ==
    [hdu EXCEPT !.updatewcs = @ \/ hdu.drizcorr = "OMIT", !.hdrname = TRUE]

\* The names collect_wcs_names reads in each image of tdp, the direct images
\* being read after the loop of lines 1063-1077.
wcs_names_read(tdp, hd) ==
    LET direct == {tdp.edp_list[i].n : i \in 1..Len(tdp.edp_list)}
    IN  [n \in DOMAIN hd |->
            all_wcs_names(IF n \in direct THEN refresh_direct(hd[n]) ELSE hd[n])]

\* update_wcs_in_visit(tdp) on the files fs with contents hd: the result of
\* update_wcs_in_visit above, the contents afterwards, and one event per call
\* of update_active_wcs (grism images first), its filt the name passed.
update_wcs_in_visit_files(tdp, hd, fs) ==
    LET u == update_wcs_in_visit(tdp, wcs_names_read(tdp, hd), fs)
        direct == {tdp.edp_list[i].n : i \in 1..Len(tdp.edp_list)}
        read(n) == IF u.direct_refreshed /\ n \in direct THEN refresh_direct(hd[n]) ELSE hd[n]
        images == SelectSeq(tdp.grism_edp_list \o tdp.edp_list,
                            LAMBDA e : FullFilename(e) \in u.updated)
        active(n) == update_active_wcs(read(n), u.final_wcsname)
        called == {images[i].n : i \in 1..Len(images)}
    IN  [u |-> u,
         hdus |-> [n \in DOMAIN hd |-> IF n \in called THEN active(n).hdu ELSE read(n)],
         events |-> [i \in 1..Len(images) |->
                        [op |-> "update_active_wcs", det |-> images[i].detector,
                         filt |-> u.final_wcsname, n |-> images[i].n,
                         status |-> active(images[i].n).status]]]

-----------------------------------------------------------------------------
(* ATTACH_CONFIG .. RECONCILE_GRISM_WCS: one pass of the loop of lines 593-658 *)

SeqOf(f(_), s) == [i \in 1..Len(s) |-> f(s[i])]

\* Lines 594-603: a manifest of an earlier run, found by glob for the first
\* direct exposure: none, one listing a product of its own ("fresh"), or one
\* listing the exposure's own file name ("overlap").
PriorChoices(t) == IF t.edp_list = <<>> THEN {"none"} ELSE {"none", "fresh", "overlap"}

PriorLines(t, prior) ==
    IF prior = "fresh" THEN <<PriorProduct(t.edp_list[1])>>
    ELSE IF prior = "overlap" THEN <<FullFilename(t.edp_list[1])>>
    ELSE <<>>

PriorFiles(t, prior) == IF prior = "none" THEN <<>> ELSE <<PriorManifest(t.edp_list[1])>>

\* History of lines 598-600: one event per line read from a manifest of an
\* earlier run (status holds the kind of the name read).
MergeEvents(t, prior) ==
    SeqOf(LAMBDA f : [op |-> "merge_manifest_line", det |-> f.det, filt |-> f.filt,
                      n |-> f.n, status |-> f.kind],
          PriorLines(t, prior))

\* run_align_to_gaia: the names of the headerlets written, none when
\* align_table is None.
run_align_to_gaia(t, align_table) ==
    IF align_table = "None" THEN <<>> ELSE SeqOf(HeaderletFilename, t.edp_list)

\* Lines 810-818: the exposures added to gaia_obj, the FilterProduct handed to
\* align_to_gaia, one add_member call each.
gaia_obj_members(tot_obj) == tot_obj.edp_list

add_member_events(tot_obj) ==
    SeqOf(LAMBDA e : Event("add_member", e, "ok"), gaia_obj_members(tot_obj))

\* A faulty exclusion: the ramp FilterProducts stay in fdp_list.
exclude_ramps_exposures_only(t) ==
    LET edp == delete_ramp_exposures(t.edp_list, "EXPOSURE")
    IN  [total_item |-> [t EXCEPT !.edp_list = edp.obj_list],
         ramp_product_list |-> edp.ramp_filenames_list]

\* A faulty exclusion: the ramp exposures stay in edp_list.
exclude_ramps_filters_only(t) ==
    LET fdp == delete_ramp_exposures(t.fdp_list, "FILTER")
    IN  [total_item |-> [t EXCEPT !.fdp_list = fdp.obj_list],
         ramp_product_list |-> <<>>]

\* Lines 633-636: the ramp FilterProducts and the ramp exposures are deleted
\* from the lists of total_item.
exclude_ramps(t) ==
    LET fdp == delete_ramp_exposures(t.fdp_list, "FILTER")
        edp == delete_ramp_exposures(t.edp_list, "EXPOSURE")
    IN  [total_item |-> [t EXCEPT !.fdp_list = fdp.obj_list, !.edp_list = edp.obj_list],
         ramp_product_list |-> edp.ramp_filenames_list]

\* What align_to_gaia is enumerated to return: a table that names one headerlet
\* per exposure.
AlignTables == {"table"}

ExposureNumbers(t) ==
    {t.edp_list[i].n : i \in 1..Len(t.edp_list)}
        \cup {t.grism_edp_list[i].n : i \in 1..Len(t.grism_edp_list)}

\* The sets of WCS names enumerated for one image: none, a preferred solution,
\* the pipeline default only.
WcsNameSets == {{}, {IDC_GSC240}, {OPUS}}

WnChoices(t) ==
    IF t.edp_list # <<>> /\ t.grism_edp_list # <<>>
      THEN [ExposureNumbers(t) -> WcsNameSets]
      ELSE {[n \in ExposureNumbers(t) |-> {}]}

PrepareOutcomes == {"ok", "align_raises"}

\* A faulty special case: no trailer is listed for a grism-only TotalProduct.
only_grism_trailer_none(t) == <<>>

\* Lines 650-653: the trailer of a TotalProduct with grism/prism exposures and
\* no direct image is added to the product list.
only_grism_trailer(t) ==
    IF t.grism_edp_list # <<>> /\ t.edp_list = <<>> THEN <<TrlFilename(t)>> ELSE <<>>

\* One iteration for total_item t on the files fs, when run_align_to_gaia raises
\* (outcome "align_raises") or no call of the iteration does. The result tells
\* whether the outcome can happen, the exception that ended the iteration (none,
\* Exception, SystemExit), and what the iteration did up to that point.
prepare_total_item(t, prior, align_table, wn, outcome, fs) ==
    LET fs1 == fs \cup Range(PriorFiles(t, prior))
        hlets == run_align_to_gaia(t, align_table)
        edp == exclude_ramps(t)
        t3 == edp.total_item
        reconcile == t3.grism_edp_list # <<>> /\ t3.edp_list # <<>>
        u == update_wcs_in_visit(t3, wn, fs1 \cup Range(hlets))
        t4 == IF reconcile THEN [t3 EXCEPT !.grism_edp_list = u.grism_edp_list] ELSE t3
        gpl == IF reconcile THEN u.grism_product_list ELSE <<>>
        only_grism == only_grism_trailer(t3)
        base == [possible |-> TRUE, exc |-> "none", total_item |-> t,
                 products |-> PriorLines(t, prior), mfiles |-> PriorFiles(t, prior),
                 files |-> fs1, ramp |-> <<>>, ramp_set |-> FALSE,
                 grism |-> <<>>, grism_set |-> FALSE, events |-> MergeEvents(t, prior)]
        aligned == IF t.edp_list # <<>>
                     THEN add_member_events(t) \o <<Event("align", t, "ok")>>
                     ELSE <<>>
        after_ramp == [base EXCEPT !.total_item = t3,
                                   !.products = @ \o hlets \o edp.ramp_product_list,
                                   !.files = fs1 \cup Range(hlets),
                                   !.ramp = edp.ramp_product_list, !.ramp_set = TRUE,
                                   !.events = @ \o <<Event("config", t, "ok")>> \o aligned]
        after_wcs == [after_ramp EXCEPT !.total_item = t4,
                                        !.products = @ \o gpl \o only_grism,
                                        !.files = IF reconcile THEN u.files ELSE @,
                                        !.grism = gpl, !.grism_set = reconcile,
                                        !.events = @ \o (IF reconcile
                                                    THEN <<Event("update_wcs_in_visit", t, "ok")>>
                                                    ELSE <<>>)]
    IN  IF outcome = "align_raises"
          THEN [base EXCEPT !.possible = (t.edp_list # <<>>), !.exc = "Exception",
                            !.events = @ \o <<Event("config", t, "ok")>> \o add_member_events(t)
                                           \o <<Event("align", t, "raised")>>]
        ELSE IF reconcile /\ u.exit
          THEN [after_ramp EXCEPT !.exc = "SystemExit",
                                  !.files = u.files,
                                  !.events = @ \o <<Event("update_wcs_in_visit", t, "raised")>>]
        ELSE [after_wcs EXCEPT !.events = @ \o SeqOf(LAMBDA e : Event("add_skycell_to_header", e, "ok"),
                                                     t4.edp_list)]

PrepareTotalItem ==
    /\ pc = "PREPARE"
    /\ \E prior \in PriorChoices(total_obj_list[item]), outcome \in PrepareOutcomes,
          align_table \in AlignTables, wn \in WnChoices(total_obj_list[item]) :
         LET r == prepare_total_item(total_obj_list[item], prior, align_table, wn, outcome, files)
         IN  /\ r.possible
             /\ total_obj_list' = [total_obj_list EXCEPT ![item] = r.total_item]
             /\ product_list' = product_list \o r.products
             /\ mfile_list' = mfile_list \o r.mfiles
             /\ files' = r.files
             /\ ramp_product_list' = IF r.ramp_set THEN r.ramp ELSE ramp_product_list
             /\ grism_product_list' = IF r.grism_set THEN r.grism ELSE grism_product_list
             /\ calls' = calls \o r.events
             /\ exc' = r.exc
             /\ return_value' = IF r.exc = "Exception" THEN HandleException
                                ELSE IF r.exc = "SystemExit" THEN HandleBaseException(1)
                                ELSE return_value
             /\ pc' = IF r.exc # "none" THEN "FINALIZE"
                      ELSE IF item = Len(total_obj_list) THEN "DRIZZLE" ELSE "PREPARE"
             /\ item' = IF r.exc = "none" THEN item + 1 ELSE item
    /\ UNCHANGED <<hdus, env_error, rows, diagnostic_mode, manifest_name, found_data,
                   catalog_args, manifest, trailers, finalized>>

-----------------------------------------------------------------------------
(* DRIZZLE: create_drizzle_products *)

RECURSIVE Concat(_)
Concat(ss) == IF ss = <<>> THEN <<>> ELSE ss[1] \o Concat(Tail(ss))

Pid(p) == [detector |-> p.detector, filters |-> p.filters, n |-> p.n]

\* Lines 413-436: the filter-level combination, then each member exposure.
filter_drizzle_steps(filt_obj) == <<Pid(filt_obj)>> \o SeqOf(Pid, filt_obj.edp_list)

\* A faulty ordering: the total detection image is combined first.
total_drizzle_steps_total_first(total_obj) ==
    IF total_obj.edp_list = <<>> THEN <<>>
    ELSE <<Pid(total_obj)>> \o Concat(SeqOf(filter_drizzle_steps, total_obj.fdp_list))

\* Lines 404-449: the combination calls (wcs_drizzle_product) of one
\* TotalProduct, in the order they are made.
total_drizzle_steps(total_obj) ==
    IF total_obj.edp_list = <<>> THEN <<>>
    ELSE Concat(SeqOf(filter_drizzle_steps, total_obj.fdp_list)) \o <<Pid(total_obj)>>

drizzle_steps(tl) == Concat(SeqOf(total_drizzle_steps, tl))

\* Lines 413-449: the exposures that the wcs_drizzle_product call on product p
\* of total_obj reads: the members of a FilterProduct or of the TotalProduct,
\* the exposure itself for a single drizzled image.
combination_inputs(total_obj, p) ==
    IF p.n > 0 THEN <<[n |-> p.n, detector |-> p.detector, filters |-> p.filters]>>
    ELSE IF p.filters = NoFilter THEN total_obj.edp_list
    ELSE Concat(SeqOf(LAMBDA f : IF f.filters = p.filters THEN f.edp_list ELSE <<>>,
                      total_obj.fdp_list))

\* What each call appends to the local product_list.
drizzle_step_products(p) ==
    IF p.n > 0 THEN <<DrizzleFilename(p), FullFilename(p), TrlFilename(p)>>
    ELSE <<DrizzleFilename(p), TrlFilename(p)>>

\* Lines 387-394: one rules file per input exposure, acquired up front.
exposure_rules_files(tl) ==
    UNION {{RulesFile(tl[k].edp_list[i]) : i \in 1..Len(tl[k].edp_list)} : k \in 1..Len(tl)}

\* Lines 415-418 and 441-444: the rules file of a filter or total product,
\* acquired right before its combination call.
step_rules_files(p) == IF p.n = 0 THEN {RulesFile(p)} ELSE {}

\* fnmatch.filter(product_list, "*dr?.fits")
dr_fits_files(pl) == SelectSeq(pl, LAMBDA f : f.kind = "drz")

\* Lines 467-470: the rules files are removed after the header update.
remove_rules_files(fs, rules) == fs \ rules

\* create_drizzle_products(total_obj_list) on the files fs, when the k-th
\* combination call raises (k = 0: none does) and refine_product_headers fails
\* on the j-th combined image (j = 0: on none).
create_drizzle_products(tl, k, j, fs) ==
    LET steps == drizzle_steps(tl)
        last == IF k = 0 THEN Len(steps) ELSE k - 1
        done == SubSeq(steps, 1, last)
        rules == exposure_rules_files(tl)
                     \cup UNION {step_rules_files(steps[i]) :
                                     i \in 1..(IF k = 0 THEN Len(steps) ELSE k)}
        made == UNION {{DrizzleFilename(done[i]), TrlFilename(done[i])} : i \in 1..Len(done)}
        pl == Concat(SeqOf(drizzle_step_products, done))
        fits == dr_fits_files(pl)
        ok_events == [i \in 1..Len(done) |-> Event("wcs_drizzle_product", done[i], "ok")]
        refined(m) == [i \in 1..m |-> [op |-> "refine_product_headers", det |-> fits[i].det,
                                        filt |-> fits[i].filt, n |-> fits[i].n, status |-> "ok"]]
    IN  IF k > 0
          THEN [exc |-> "Exception", files |-> fs \cup rules \cup made, product_list |-> <<>>,
                events |-> ok_events \o <<Event("wcs_drizzle_product", steps[k], "raised")>>]
        ELSE IF j > 0
          THEN [exc |-> "SystemExit", files |-> fs \cup rules \cup made, product_list |-> <<>>,
                events |-> ok_events \o refined(j - 1)
                           \o <<[refined(j)[j] EXCEPT !.status = "raised"]>>]
        ELSE [exc |-> "none", files |-> remove_rules_files(fs \cup rules \cup made, rules),
              product_list |-> pl, events |-> ok_events \o refined(Len(fits))]

CreateDrizzleProducts ==
    /\ pc = "DRIZZLE"
    /\ \E k \in 0..Len(drizzle_steps(total_obj_list)),
          j \in 0..Len(dr_fits_files(Concat(SeqOf(drizzle_step_products,
                                                  drizzle_steps(total_obj_list))))) :
         LET r == create_drizzle_products(total_obj_list, k, j, files)
         IN  /\ k > 0 => j = 0
             /\ files' = r.files
             /\ calls' = calls \o r.events
             /\ product_list' = product_list \o r.product_list
             /\ exc' = r.exc
             /\ return_value' = IF r.exc = "Exception" THEN HandleException
                                ELSE IF r.exc = "SystemExit"
                                  THEN HandleBaseException(KEYWORD_UPDATE_PROBLEM)
                                ELSE return_value
             /\ pc' = IF r.exc = "none" THEN "CATALOG" ELSE "FINALIZE"
    /\ UNCHANGED <<hdus, env_error, rows, diagnostic_mode, item, total_obj_list,
                   manifest_name, found_data, mfile_list, grism_product_list,
                   ramp_product_list, catalog_args, manifest, trailers, finalized>>

-----------------------------------------------------------------------------
(* CATALOG: create_catalog_products *)

PhotModes == {"aperture", "segment", "both"}

\* The catalog types a phot_mode selects.
CatalogTypes(pm) ==
    (IF pm \in {"aperture", "both"} THEN {"aperture"} ELSE {})
        \cup (IF pm \in {"segment", "both"} THEN {"segment"} ELSE {})

\* A faulty entry test: the direct exposures are not asked for.
catalog_entered_by_switch(total_product_obj, off) ==
    total_product_obj.detector \notin off

\* Lines 140-146: a TotalProduct is processed when it has direct exposures and
\* the switch of its detector is not off.
catalog_entered(total_product_obj, off) ==
    total_product_obj.edp_list # <<>> /\ total_product_obj.detector \notin off

CatStep(op, p) == [op |-> op, p |-> Pid(p)]

\* Lines 193-204: the filters tallied in n1_dict with the number of exposures
\* of each, for the detectors other than IR and SBC.
n1_dict(total_product_obj) ==
    IF total_product_obj.detector \in {"ir", "sbc"} THEN <<>>
    ELSE LET edp_list == total_product_obj.edp_list
         IN  [filt \in {edp_list[i].filters : i \in 1..Len(edp_list)} |->
                 Cardinality({i \in 1..Len(edp_list) : edp_list[i].filters = filt})]

\* Lines 236-299: measure, flag and combine of one FilterProduct.
filter_catalog_steps(f) ==
    <<CatStep("measure", f), CatStep("run_sourcelist_flagging", f), CatStep("combine", f)>>

\* A faulty ordering: the catalogs are written before verify_crthresh is asked.
total_catalog_steps_write_first(t, off) ==
    IF ~catalog_entered(t, off) THEN <<>>
    ELSE <<CatStep("identify", t)>>
         \o Concat(SeqOf(filter_catalog_steps, t.fdp_list))
         \o <<CatStep("prune", t)>>
         \o SeqOf(LAMBDA f : CatStep("write", f), t.fdp_list)
         \o <<CatStep("write", t), CatStep("verify_crthresh", t)>>

\* Lines 163-361: the calls made for one TotalProduct, in order.
total_catalog_steps(t, off) ==
    IF ~catalog_entered(t, off) THEN <<>>
    ELSE <<CatStep("identify", t)>>
         \o Concat(SeqOf(filter_catalog_steps, t.fdp_list))
         \o <<CatStep("prune", t), CatStep("verify_crthresh", t)>>
         \o SeqOf(LAMBDA f : CatStep("write", f), t.fdp_list)
         \o <<CatStep("write", t)>>

catalog_steps(tl, off) == Concat(SeqOf(LAMBDA t : total_catalog_steps(t, off), tl))

\* A faulty bookkeeping: the segment branch appends the point catalog name.
catalog_step_products_point_twice(step, pm) ==
    IF step.op # "write" THEN <<>>
    ELSE (IF pm \in {"aperture", "both"} THEN <<PointCatFilename(step.p)>> ELSE <<>>)
         \o (IF pm \in {"segment", "both"} THEN <<PointCatFilename(step.p)>> ELSE <<>>)

\* Lines 347-351 and 357-361: the names appended after a write.
catalog_step_products(step, pm) ==
    IF step.op # "write" THEN <<>>
    ELSE (IF pm \in {"aperture", "both"} THEN <<PointCatFilename(step.p)>> ELSE <<>>)
         \o (IF pm \in {"segment", "both"} THEN <<SegmentCatFilename(step.p)>> ELSE <<>>)

\* A faulty decision: diagnostic_mode is not consulted.
reject_catalogs_as_returned(rejected, diag) == rejected

\* Lines 332-337: the decision handed to the writes (rejected: the set of
\* catalog types verify_crthresh rejected).
reject_catalogs(rejected, diag) == IF diag THEN {} ELSE rejected

\* How the events record a reject decision of the catalog types of pm.
reject_status(reject, pm) ==
    IF reject = {} THEN "ok"
    ELSE IF reject = CatalogTypes(pm) THEN "ok-rejecting"
    ELSE IF reject = {"aperture"} THEN "ok-rejecting-aperture"
    ELSE "ok-rejecting-segment"

\* HAPCatalogs.write(reject_catalogs): the catalog files emitted.
catalog_step_files(step, pm, reject) ==
    IF step.op # "write" THEN {}
    ELSE (IF "aperture" \in CatalogTypes(pm) \ reject THEN {PointCatFilename(step.p)} ELSE {})
         \cup (IF "segment" \in CatalogTypes(pm) \ reject THEN {SegmentCatFilename(step.p)} ELSE {})

\* create_catalog_products(total_obj_list, ...) when the k-th call raises
\* (k = 0: none does).
create_catalog_products(tl, pm, off, diag, rejected, k, fs) ==
    LET steps == catalog_steps(tl, off)
        done == SubSeq(steps, 1, IF k = 0 THEN Len(steps) ELSE k - 1)
        reject == reject_catalogs(rejected, diag)
        ev(i, status) == [Event(steps[i].op, steps[i].p, status) EXCEPT
                            !.status = IF status # "ok" THEN status
                                       ELSE IF steps[i].op = "verify_crthresh"
                                         THEN reject_status(rejected, pm)
                                       ELSE IF steps[i].op = "write"
                                         THEN reject_status(reject, pm)
                                       ELSE status]
        ok_events == [i \in 1..Len(done) |-> ev(i, "ok")]
        written == UNION {catalog_step_files(done[i], pm, reject) : i \in 1..Len(done)}
    IN  IF k > 0
          THEN [exc |-> "Exception", files |-> fs \cup written, product_list |-> <<>>,
                events |-> ok_events \o <<ev(k, "raised")>>]
          ELSE [exc |-> "none", files |-> fs \cup written,
                product_list |-> Concat(SeqOf(LAMBDA st : catalog_step_products(st, pm), done)),
                events |-> ok_events]

\* The detectors of the visit: the switches of the others are never consulted.
DetectorsOf(tl) == {tl[i].detector : i \in 1..Len(tl)}

CreateCatalogProducts ==
    /\ pc = "CATALOG"
    /\ \E pm \in PhotModes, off \in SUBSET DetectorsOf(total_obj_list) :
       \E rejected \in SUBSET CatalogTypes(pm), k \in 0..Len(catalog_steps(total_obj_list, off)) :
         LET r == create_catalog_products(total_obj_list, pm, off, diagnostic_mode,
                                          rejected, k, files)
         IN  /\ catalog_args' = [called |-> TRUE, phot_mode |-> pm, off |-> off]
             /\ files' = r.files
             /\ calls' = calls \o r.events
             /\ product_list' = product_list \o r.product_list
             /\ exc' = r.exc
             /\ return_value' = IF r.exc = "Exception" THEN HandleException ELSE return_value
             /\ pc' = IF r.exc = "none" THEN "QA" ELSE "FINALIZE"
    /\ UNCHANGED <<hdus, env_error, rows, diagnostic_mode, item, total_obj_list, manifest_name,
                   found_data, mfile_list, grism_product_list, ramp_product_list,
                   manifest, trailers, finalized>>

-----------------------------------------------------------------------------
(* QA *)

\* Lines 686-696: the switch is read inside the try block, so that its
\* ValueError is handled as any other exception of the main sequence.
QualityAnalysis ==
    /\ pc = "QA"
    /\ \E val \in EnvValues :
         LET sw == get_envvar_switch(val, "None")
         IN  /\ calls' = IF sw = "True"
                           THEN Append(calls, [op |-> "run_quality_analysis", det |-> "",
                                               filt |-> NoFilter, n |-> 0, status |-> "ok"])
                           ELSE calls
             /\ env_error' = IF sw = "raise" THEN [name |-> envvar_qa_svm, value |-> val]
                              ELSE env_error
             /\ exc' = IF sw = "raise" THEN "Exception" ELSE "none"
             /\ return_value' = IF sw = "raise" THEN HandleException ELSE IntVal(0)
             /\ pc' = "FINALIZE"
    /\ UNCHANGED <<hdus, rows, diagnostic_mode, item, total_obj_list, manifest_name,
                   found_data, product_list, mfile_list, grism_product_list,
                   ramp_product_list, catalog_args, files, manifest, trailers,
                   finalized>>

-----------------------------------------------------------------------------
(* FINALIZE: the finally block of run_hap_processing *)

InputTypes == {"str", "list", "other"}

\* Lines 713-736: the manifest name when parsing left none. h0_readable: the
\* primary header of the first input exposure can be read (ascii.read and
\* fits.getheader return); when it cannot, the read raises.
close_out_manifest_name(name, input_type, h0_readable) ==
    IF name # NoName THEN [raises |-> FALSE, name |-> name]
    ELSE IF input_type = "other" THEN [raises |-> FALSE, name |-> GenericManifest]
    ELSE IF h0_readable THEN [raises |-> FALSE, name |-> SynthManifest]
    ELSE [raises |-> TRUE, name |-> name]

\* Lines 738-744: the manifest is written unless its name is empty or generic.
manifest_written(name) == name # NoName /\ name # GenericManifest

manifest_lines(tl, pl) == IF tl # <<>> THEN pl ELSE <<>>

\* A faulty removal: diagnostic_mode is not consulted.
remove_prior_manifests_always(fs, mfl, diag) == fs \ Range(mfl)

\* Lines 747-750: the manifests of earlier runs are removed unless in
\* diagnostic mode.
remove_prior_manifests(fs, mfl, diag) == IF diag THEN fs ELSE fs \ Range(mfl)

\* Lines 766-779: the placeholder trailers of the grism and ramp exposures.
placeholder_trailers(tl, gpl, rpl) ==
    IF tl = <<>> THEN {}
    ELSE {f \in Range(gpl) \cup Range(rpl) : f.kind = "trl"}

\* A faulty guard: the log is appended only for TotalProducts with direct
\* exposures.
appended_trailers_direct_only(tl, fd) ==
    IF fd THEN {TrlFilename(tl[i]) : i \in {j \in 1..Len(tl) : tl[j].edp_list # <<>>}} ELSE {}

\* Lines 784-787: the trailers the run log is appended to.
appended_trailers(tl, fd) ==
    IF fd THEN {TrlFilename(tl[i]) : i \in 1..Len(tl)} ELSE {}

\* Lines 788-790: update_drizpars of the TotalProducts with direct exposures.
drizpars_events(tl) ==
    SeqOf(LAMBDA t : Event("update_drizpars", t, "ok"),
          SelectSeq(tl, LAMBDA t : t.edp_list # <<>>))

\* The inputs the manifest-name synthesis consults: none when parsing has set
\* the name.
CloseOutInputs(name) ==
    IF name # NoName THEN {<<"str", TRUE>>} ELSE InputTypes \X BOOLEAN

Finalize ==
    /\ pc = "FINALIZE"
    /\ finalized' = finalized + 1
    /\ \E inp \in CloseOutInputs(manifest_name) :
         LET m == close_out_manifest_name(manifest_name, inp[1], inp[2])
             placeholders == placeholder_trailers(total_obj_list, grism_product_list,
                                                  ramp_product_list)
             appended == appended_trailers(total_obj_list, found_data)
         IN  IF m.raises
               THEN /\ pc' = "RAISED"
                    /\ UNCHANGED <<manifest_name, manifest, files, trailers, calls>>
               ELSE /\ pc' = "RETURNED"
                    /\ manifest_name' = m.name
                    /\ manifest' = IF manifest_written(m.name)
                                     THEN [written |-> TRUE,
                                           lines |-> manifest_lines(total_obj_list, product_list)]
                                     ELSE manifest
                    /\ files' = ((remove_prior_manifests(files, mfile_list, diagnostic_mode)
                                    \cup (IF manifest_written(m.name) THEN {m.name} ELSE {})
                                    \cup placeholders \cup appended) \ {LogName})
                    /\ trailers' = appended
                    /\ calls' = calls \o drizpars_events(total_obj_list)
    /\ UNCHANGED <<hdus, env_error, rows, diagnostic_mode, item, exc, total_obj_list, found_data,
                   product_list, mfile_list, grism_product_list, ramp_product_list,
                   catalog_args, return_value>>

Next ==
    \/ ReadCatalogSwitches
    \/ ParseObset
    \/ ParseObsetRaises
    \/ CheckViableData
    \/ PrepareTotalItem
    \/ CreateDrizzleProducts
    \/ CreateCatalogProducts
    \/ QualityAnalysis
    \/ Finalize

Spec == Init /\ [][Next]_vars

-----------------------------------------------------------------------------
(* Properties *)

Returned == pc = "RETURNED"
Raised == pc = "RAISED"
ParseSucceeded == total_obj_list # <<>>
CallIndices == 1..Len(calls)
Called(op) == \E i \in CallIndices : calls[i].op = op
CalledBefore(op, p, i) ==
    \E j \in 1..(i - 1) :
        calls[j].status # "raised" /\ [calls[j] EXCEPT !.status = "ok"] = Event(op, p, "ok")
Totals == Range(total_obj_list)
Lines == Range(manifest.lines)
Count(x, s) == Cardinality({i \in 1..Len(s) : s[i] = x})

\* C1: every run that enters the main sequence executes FINALIZE exactly once
\* and to its end, and run_hap_processing returns a status instead of raising.
C1_FinalizeOnceAndReturn ==
    /\ finalized <= 1
    /\ pc \in {"RETURNED", "RAISED"} => finalized = 1
    /\ ~Raised

\* What does hold of FINALIZE: it is entered once, and it raises only when
\* parsing failed and the first input cannot be read to name the manifest.
FinalizeEnteredOnce ==
    /\ finalized <= 1
    /\ pc \in {"RETURNED", "RAISED"} => finalized = 1
    /\ Raised => ~ParseSucceeded /\ manifest_name = NoName /\ exc = "Exception"

\* C2: the value returned is always an integer: 0 when every stage succeeded,
\* 1 after an exception, the exit code after a sys.exit.
C2_ReturnsInteger ==
    Returned =>
        /\ return_value.type = "int"
        /\ exc = "none" => return_value.val = 0
        /\ exc = "Exception" => return_value.val = 1
        /\ exc = "SystemExit" => return_value.val \in {NO_VIABLE_DATA, KEYWORD_UPDATE_PROBLEM, 1}

\* What is returned instead: the SystemExit instance after a sys.exit, an
\* integer otherwise.
ReturnsIntegerOrSystemExit ==
    Returned =>
        /\ exc = "none" => return_value = IntVal(0)
        /\ exc = "Exception" => return_value = IntVal(1)
        /\ exc = "SystemExit" =>
               /\ return_value.type = "SystemExit"
               /\ return_value.code \in {NO_VIABLE_DATA, KEYWORD_UPDATE_PROBLEM, 1}

\* The headerlets and combined images on disk.
ProductsOnDisk == {f \in files : f.kind \in {"hlet", "drz"}}

\* C3: when parsing succeeded and a later stage fails, the manifest is written
\* and lists every product produced before the failure: the headerlets, the
\* ramp and grism entries, and the combined images already created.
C3_ManifestListsPartialOutput ==
    (Returned /\ ParseSucceeded /\ exc # "none") =>
        /\ manifest.written
        /\ ProductsOnDisk \subseteq Lines
        /\ Range(ramp_product_list) \subseteq Lines
        /\ Range(grism_product_list) \subseteq Lines

\* What does hold on failure: the manifest is written and lists what the
\* stages before the drizzle stage appended.
ManifestListsPreparedOutput ==
    (Returned /\ ParseSucceeded /\ exc # "none") =>
        /\ manifest.written
        /\ {f \in files : f.kind = "hlet"} \subseteq Lines
        /\ Range(ramp_product_list) \subseteq Lines
        /\ Range(grism_product_list) \subseteq Lines

Success == Returned /\ exc = "none"

\* The drizzle products of the tree and the catalogs of the phot_mode, for the
\* TotalProducts the catalog stage processed.
ExpectedDrizzleProducts ==
    UNION {{DrizzleFilename(t)}
             \cup {DrizzleFilename(t.fdp_list[k]) : k \in 1..Len(t.fdp_list)}
             \cup {DrizzleFilename(t.edp_list[k]) : k \in 1..Len(t.edp_list)} :
           t \in {u \in Totals : u.edp_list # <<>>}}

ExpectedCatalogs ==
    UNION {UNION {(IF "aperture" \in CatalogTypes(catalog_args.phot_mode)
                     THEN {PointCatFilename(p)} ELSE {})
                  \cup (IF "segment" \in CatalogTypes(catalog_args.phot_mode)
                          THEN {SegmentCatFilename(p)} ELSE {}) :
                  p \in {Pid(t)} \cup {Pid(t.fdp_list[k]) : k \in 1..Len(t.fdp_list)}} :
           t \in {u \in Totals : catalog_entered(u, catalog_args.off)}}

\* The number of times the manifests of earlier runs that were merged list x.
MergedCount(x) ==
    Cardinality({i \in CallIndices :
                    /\ calls[i].op = "merge_manifest_line"
                    /\ File(calls[i].status, calls[i].det, calls[i].filt, calls[i].n) = x})

\* C4 (as amended): in every successful run the manifest contains each drizzle
\* product and each catalog of the phot_mode, and a name is listed more than
\* once only as often as the merged manifests of earlier runs list it too.
C4_ManifestComplete ==
    Success =>
        /\ ExpectedDrizzleProducts \subseteq Lines
        /\ ExpectedCatalogs \subseteq Lines
        /\ \A x \in Lines : Count(x, manifest.lines) <= 1 + MergedCount(x)

\* C4 as stated: the manifest contains each product and no name twice, also
\* when manifests of earlier runs are merged.
C4_NoDuplicates ==
    Success =>
        /\ ExpectedDrizzleProducts \subseteq Lines
        /\ ExpectedCatalogs \subseteq Lines
        /\ \A x \in Lines : Count(x, manifest.lines) = 1

\* A successful run of one detector, one filter and two exposures, with both
\* catalog types, that merged a manifest of an earlier run.
C4_Witness ==
    /\ Success
    /\ mfile_list # <<>>
    /\ catalog_args.phot_mode = "both"
    /\ \E t \in Totals : /\ Len(t.fdp_list) = 1
                         /\ Len(t.edp_list) = 2
                         /\ catalog_entered(t, catalog_args.off)
    /\ \A x \in Lines : Count(x, manifest.lines) = 1

IsCombine(e) == e.op = "wcs_drizzle_product"
IsTotalCombine(e) == IsCombine(e) /\ e.n = 0 /\ e.filt = NoFilter

\* C5: the total detection image of a TotalProduct is combined only after the
\* combination of each of its FilterProducts and of each of its exposures has
\* completed; a TotalProduct without direct exposures causes no combination.
C5_TotalCombinedLast ==
    /\ \A i \in CallIndices : \A t \in Totals :
         (IsTotalCombine(calls[i]) /\ t.detector = calls[i].det) =>
             /\ t.edp_list # <<>>
             /\ \A k \in 1..Len(t.fdp_list) :
                    CalledBefore("wcs_drizzle_product", t.fdp_list[k], i)
             /\ \A k \in 1..Len(t.edp_list) :
                    CalledBefore("wcs_drizzle_product", t.edp_list[k], i)
    /\ \A t \in Totals :
         t.edp_list = <<>> => \A i \in CallIndices : IsCombine(calls[i]) => calls[i].det # t.detector

\* The total image of a detector with two filters of one exposure each has
\* been combined.
C5_Witness ==
    \E i \in CallIndices : \E t \in Totals :
        /\ calls[i] = Event("wcs_drizzle_product", t, "ok")
        /\ Len(t.edp_list) = 2
        /\ Len(t.fdp_list) = 2

\* C6: identify on the total image completes before any measure of its
\* filters, every measure, flag and combine completes before pruning, pruning
\* before verify_crthresh, and no catalog is written before verify_crthresh
\* has returned.
C6_CatalogOrder ==
    \A i \in CallIndices : \A t \in Totals :
        t.detector = calls[i].det =>
            /\ calls[i].op = "measure" => CalledBefore("identify", t, i)
            /\ calls[i].op = "prune" =>
                   \A k \in 1..Len(t.fdp_list) :
                       /\ CalledBefore("measure", t.fdp_list[k], i)
                       /\ CalledBefore("run_sourcelist_flagging", t.fdp_list[k], i)
                       /\ CalledBefore("combine", t.fdp_list[k], i)
            /\ calls[i].op = "verify_crthresh" => CalledBefore("prune", t, i)
            /\ calls[i].op = "write" => CalledBefore("verify_crthresh", t, i)

\* The catalogs of a detector with two filters have all been written.
C6_Witness ==
    \E i \in CallIndices : \E t \in Totals :
        /\ calls[i].op = "write"
        /\ calls[i].det = t.detector
        /\ calls[i].filt = NoFilter
        /\ Len(t.fdp_list) = 2

\* C7: every rules file acquired by create_drizzle_products is deleted by the
\* time run_hap_processing returns, whatever the outcome.
C7_RulesFilesDeleted ==
    Returned => ~\E f \in files : f.kind = "rules"

\* What does hold: no rules file is left when the drizzle stage completed.
RulesFilesDeletedOnCompletion ==
    (Returned /\ ~\E i \in CallIndices : calls[i].op \in {"wcs_drizzle_product",
                                                          "refine_product_headers"}
                                         /\ calls[i].status = "raised")
        => ~\E f \in files : f.kind = "rules"

\* C8 (as amended): when run_hap_processing returns the temporary log is gone,
\* and when parsing produced a TotalProduct the log has been appended to the
\* trailer of every TotalProduct if the visit holds a direct exposure, and to
\* none if it holds none.
C8_RunLogAppendedWhenDataFound ==
    Returned =>
        /\ LogName \notin files
        /\ ParseSucceeded =>
               /\ found_data => \A t \in Totals : TrlFilename(t) \in trailers
               /\ ~found_data => trailers = {}
               /\ trailers \subseteq files

\* C8 as stated: on every path on which parsing produced a TotalProduct, the
\* no-viable-data exit included, the log is appended to every trailer.
C8_RunLogAlwaysAppended ==
    Returned =>
        /\ LogName \notin files
        /\ ParseSucceeded => \A t \in Totals : TrlFilename(t) \in trailers

\* A failed run of two detectors, one of them without direct exposures: the
\* log has been appended to both trailers.
C8_Witness ==
    /\ Returned
    /\ exc # "none"
    /\ Len(total_obj_list) = 2
    /\ \E t \in Totals : t.edp_list = <<>>
    /\ \A t \in Totals : TrlFilename(t) \in trailers
    /\ LogName \notin files

RefineFailed ==
    \E i \in CallIndices : calls[i].op = "refine_product_headers" /\ calls[i].status = "raised"

CatalogOps == {"identify", "measure", "run_sourcelist_flagging", "combine", "prune",
               "verify_crthresh", "write"}

\* C9: when refine_product_headers fails the result of the run is the
\* KEYWORD_UPDATE_PROBLEM status, no catalog or QA stage is executed, and
\* FINALIZE is executed.
C9_KeywordUpdateProblem ==
    RefineFailed =>
        /\ pc \in {"FINALIZE", "RETURNED"}
        /\ ~catalog_args.called
        /\ \A i \in CallIndices : calls[i].op \notin CatalogOps \cup {"run_quality_analysis"}
        /\ Returned => finalized = 1 /\ return_value = IntVal(KEYWORD_UPDATE_PROBLEM)

\* What does hold: the same with the SystemExit instance as the result.
KeywordUpdateProblemExit ==
    RefineFailed =>
        /\ pc \in {"FINALIZE", "RETURNED"}
        /\ ~catalog_args.called
        /\ \A i \in CallIndices : calls[i].op \notin CatalogOps \cup {"run_quality_analysis"}
        /\ Returned => finalized = 1 /\ return_value = SystemExit(KEYWORD_UPDATE_PROBLEM)

NoDirectExposure == \A i \in 1..Len(rows) : IsGrism(rows[i].filters)

\* C10: when no TotalProduct has a direct exposure the run goes from
\* PARSE_OBSET to FINALIZE with the NO_VIABLE_DATA result and no operation of
\* the later stages is executed; otherwise this exit is never taken.
C10_NoViableData ==
    ParseSucceeded /\ pc \notin {"CHECK_DATA"} =>
        IF NoDirectExposure
          THEN /\ pc \in {"FINALIZE", "RETURNED"}
               /\ calls = <<>>
               /\ ~catalog_args.called
               /\ return_value = IntVal(NO_VIABLE_DATA)
          ELSE /\ found_data
               /\ return_value \notin {IntVal(NO_VIABLE_DATA), SystemExit(NO_VIABLE_DATA)}

\* What does hold: the same with the SystemExit instance as the result.
NoViableDataExit ==
    ParseSucceeded /\ pc \notin {"CHECK_DATA"} =>
        IF NoDirectExposure
          THEN /\ pc \in {"FINALIZE", "RETURNED"}
               /\ calls = <<>>
               /\ ~catalog_args.called
               /\ return_value = SystemExit(NO_VIABLE_DATA)
          ELSE /\ found_data
               /\ return_value \notin {IntVal(NO_VIABLE_DATA), SystemExit(NO_VIABLE_DATA)}

\* The TotalProducts as parsed, before the ramp exclusion and the WCS
\* reconciliation change their lists.
ParsedTotals == interpret_obset_input(rows)
GrismOnly(t) == t.edp_list = <<>> /\ t.grism_edp_list # <<>>
NoDrizzleOrCatalogFor(t) ==
    \A i \in CallIndices :
        calls[i].det = t.detector =>
            calls[i].op \notin CatalogOps \cup {"wcs_drizzle_product", "refine_product_headers"}

\* C11 (as amended): for a TotalProduct with grism/prism exposures and no
\* direct exposure no drizzle and no catalog operation is invoked, and the
\* manifest lists its trailer exactly when the preparation loop completed its
\* pass for that product: not on the no-viable-data exit, and not when an
\* earlier TotalProduct's pass failed.
C11_GrismOnlyTotal ==
    LET parsed == ParsedTotals
    IN  \A k \in 1..Len(total_obj_list) :
            GrismOnly(parsed[k]) =>
                /\ NoDrizzleOrCatalogFor(parsed[k])
                /\ Returned =>
                       /\ manifest.written
                       /\ TrlFilename(parsed[k]) \in Lines <=> item > k

\* C11 as stated: in every run that reaches FINALIZE the manifest lists the
\* trailer of the grism-only TotalProduct, also when no detector has a direct
\* exposure.
C11_GrismOnlyAlwaysListed ==
    \A k \in 1..Len(total_obj_list) :
        GrismOnly(ParsedTotals[k]) =>
            /\ NoDrizzleOrCatalogFor(ParsedTotals[k])
            /\ Returned => manifest.written /\ TrlFilename(ParsedTotals[k]) \in Lines

\* A run of a detector with a direct exposure and a grism-only detector has
\* returned with the trailer of the latter in the manifest.
C11_Witness ==
    /\ Returned
    /\ found_data
    /\ \E k \in 1..Len(total_obj_list) :
         /\ GrismOnly(ParsedTotals[k])
         /\ TrlFilename(ParsedTotals[k]) \in Lines

Accepted(val) == Lower(val) \in DOMAIN envvar_bool_dict

\* What the code does with a rejected value: a value is rejected only when it
\* is set and outside {on, true, yes, off, false, no} whatever its case.
\* Rejected for a catalog switch, the error leaves run_hap_processing before
\* the main sequence; rejected for SVM_QUALITY_TESTING, which is read inside
\* the try block, it is caught and converted into the return code 1.
InvalidSwitchHandling ==
    /\ env_error # NoSwitch =>
           /\ env_error.value # "unset"
           /\ ~Accepted(env_error.value)
           /\ IF env_error.name = envvar_qa_svm
                THEN /\ pc \in {"FINALIZE", "RETURNED"}
                     /\ exc = "Exception"
                     /\ return_value = IntVal(1)
                ELSE /\ pc = "CONFIG_ERROR"
                     /\ finalized = 0
                     /\ calls = <<>>
    /\ pc = "CONFIG_ERROR" => env_error # NoSwitch

\* C12: for every environment switch, a set value outside {on, true, yes, off,
\* false, no} (whatever its case) raises an error that propagates out of
\* run_hap_processing: no handler catches it, no return code replaces it.
C12_InvalidSwitchPropagates ==
    env_error # NoSwitch =>
        /\ env_error.value # "unset"
        /\ ~Accepted(env_error.value)
        /\ pc = "CONFIG_ERROR"
        /\ finalized = 0

\* An invalid SVM_QUALITY_TESTING has ended a run that returned 1.
InvalidQualitySwitchReturned ==
    /\ env_error = [name |-> envvar_qa_svm, value |-> "maybe"]
    /\ Returned
    /\ return_value = IntVal(1)
    /\ catalog_args.called

\* An invalid catalog switch has ended the run before the main sequence.
InvalidCatalogSwitchRaised ==
    /\ pc = "CONFIG_ERROR"
    /\ env_error.name = "SVM_CATALOG_IR"

EventProduct(e) == [n |-> e.n, detector |-> e.det, filters |-> e.filt]
\* The exposures of the poller file with a 'fr' filter, per detector.
RampExposures(det) ==
    {Exposure(rows, i) : i \in {j \in 1..Len(rows) : rows[j].detector = det
                                                       /\ ContainsFr(rows[j].filters)}}

\* C14: every exposure with a 'fr' filter of a TotalProduct with direct
\* exposures is among the members handed to run_align_to_gaia; once the
\* TotalProduct is prepared it is in no list of the TotalProduct, it is an
\* input of no filter, exposure or total combination call, and no catalog
\* operation or n1 tally takes it in.
C14_RampExposuresExcluded ==
    \A k \in 1..Len(total_obj_list) :
        LET t == total_obj_list[k]
        IN  \A e \in RampExposures(t.detector) :
              /\ \A i \in CallIndices :
                    calls[i].op = "align" /\ calls[i].det = t.detector =>
                        CalledBefore("add_member", e, i)
              /\ item > k =>
                    /\ Called("align") /\ \E i \in CallIndices :
                          calls[i].op = "align" /\ calls[i].det = t.detector
                    /\ e \notin Range(t.edp_list)
                    /\ \A j \in 1..Len(t.fdp_list) : e \notin Range(t.fdp_list[j].edp_list)
              /\ \A i \in CallIndices :
                    IsCombine(calls[i]) /\ calls[i].det = t.detector =>
                        e \notin Range(combination_inputs(t, EventProduct(calls[i])))
              /\ \A i \in CallIndices :
                    calls[i].op \in CatalogOps /\ calls[i].det = t.detector =>
                        /\ calls[i].filt # e.filters
                        /\ e.filters \notin DOMAIN n1_dict(t)

\* A run has returned after combining and cataloguing a TotalProduct that was
\* parsed with a ramp exposure beside another direct exposure.
C14_Witness ==
    /\ Returned
    /\ \E k \in 1..Len(total_obj_list) :
         /\ RampExposures(total_obj_list[k].detector) # {}
         /\ total_obj_list[k].edp_list # <<>>
         /\ \E i \in CallIndices : IsTotalCombine(calls[i]) /\ calls[i].det = total_obj_list[k].detector
         /\ \E i \in CallIndices : calls[i].op = "write" /\ calls[i].det = total_obj_list[k].detector
                                     /\ calls[i].filt = NoFilter

\* The trailer names of grism/prism and ramp exposures among the names listed
\* for the manifest.
GrismOrRampTrailers ==
    {f \in Range(product_list) :
        f.kind = "trl" /\ f.n > 0 /\ (IsGrism(f.filt) \/ ContainsFr(f.filt))}

\* C15: when FINALIZE has ended, a placeholder trailer exists for every grism
\* trailer name and every ramp trailer name that was added to the list of the
\* manifest during the run, whichever TotalProduct the exposure belongs to.
C15_PlaceholderTrailers ==
    Returned => \A f \in GrismOrRampTrailers : f \in files

\* What the code does: the placeholders are those of the lists returned for
\* the TotalProduct prepared last.
PlaceholdersOfLastLists ==
    Returned =>
        \A f \in GrismOrRampTrailers :
            f \in files <=> f \in Range(grism_product_list) \cup Range(ramp_product_list)

-----------------------------------------------------------------------------
(* delete_ramp_exposures on its own *)

\* The object list of one TotalProduct is total_obj_list[1].edp_list and the
\* list returned by the last call is ramp_product_list; calls holds one event
\* per call, its status the type_of_list and its n the length of the list it
\* was given.
RampRows == UNION {[1..n -> [detector : {"uvis"}, filters : Filters]] : n \in 0..MaxRamp}

RampInit ==
    /\ rows \in RampRows
    /\ diagnostic_mode = FALSE
    /\ pc = "RAMP"
    /\ env_error = NoSwitch
    /\ hdus = <<>>
    /\ item = 1
    /\ exc = "none"
    /\ total_obj_list = <<[n |-> 0, detector |-> "uvis", filters |-> NoFilter,
                           edp_list |-> ExposuresOf(rows), fdp_list |-> <<>>,
                           grism_edp_list |-> <<>>]>>
    /\ manifest_name = NoName
    /\ found_data = FALSE
    /\ product_list = <<>>
    /\ mfile_list = <<>>
    /\ grism_product_list = <<>>
    /\ ramp_product_list = <<>>
    /\ catalog_args = NotCalled
    /\ return_value = IntVal(0)
    /\ files = {}
    /\ manifest = [written |-> FALSE, lines |-> <<>>]
    /\ trailers = {}
    /\ calls = <<>>
    /\ finalized = 0

DeleteRampExposures ==
    /\ pc = "RAMP"
    /\ Len(calls) < MaxRampCalls
    /\ \E type_of_list \in {"EXPOSURE", "FILTER"} :
         LET obj_list == total_obj_list[1].edp_list
             r == delete_ramp_exposures(obj_list, type_of_list)
         IN  /\ total_obj_list' = [total_obj_list EXCEPT ![1].edp_list = r.obj_list]
             /\ ramp_product_list' = r.ramp_filenames_list
             /\ calls' = Append(calls, [op |-> "delete_ramp_exposures", det |-> "uvis",
                                        filt |-> NoFilter, n |-> Len(obj_list),
                                        status |-> type_of_list])
    /\ UNCHANGED <<hdus, rows, diagnostic_mode, pc, item, exc, manifest_name, found_data,
                   product_list, mfile_list, grism_product_list, catalog_args,
                   return_value, files, manifest, trailers, finalized, env_error>>

RampNext == DeleteRampExposures

RampSpec == RampInit /\ [][RampNext]_vars

NotRamp(obj) == ~ContainsFr(obj.filters)
RampMembers(obj_list) == {obj_list[i] : i \in {j \in 1..Len(obj_list) : ~NotRamp(obj_list[j])}}

\* C13: delete_ramp_exposures leaves in the list exactly the members whose
\* filter name has no 'fr', in their original relative order. On an exposure
\* list the returned list holds the file name and the trailer name of each
\* removed member exactly once and nothing else; a second call on the same list
\* removes nothing and returns the empty list.
C13_DeleteRampExposures ==
    LET original == ExposuresOf(rows)
        obj_list == total_obj_list[1].edp_list
        removed == RampMembers(original)
    IN  pc = "RAMP" /\ calls # <<>> =>
          /\ obj_list = SelectSeq(original, NotRamp)
          /\ Len(calls) = 1 /\ calls[1].status = "EXPOSURE" =>
               /\ \A obj \in removed :
                    /\ Count(FullFilename(obj), ramp_product_list) = 1
                    /\ Count(TrlFilename(obj), ramp_product_list) = 1
               /\ Range(ramp_product_list) =
                    {FullFilename(obj) : obj \in removed} \cup {TrlFilename(obj) : obj \in removed}
          /\ Len(calls) = 1 /\ calls[1].status = "FILTER" => ramp_product_list = <<>>
          /\ Len(calls) >= 2 =>
               /\ calls[Len(calls)].n = Len(SelectSeq(original, NotRamp))
               /\ ramp_product_list = <<>>

\* [f555w, fr388n, f814w] has become [f555w, f814w], a second call has returned
\* the empty list.
C13_Witness ==
    /\ pc = "RAMP"
    /\ [i \in 1..Len(rows) |-> rows[i].filters] = <<F555W, FR388N, F814W>>
    /\ Len(calls) = 2
    /\ calls[1].status = "EXPOSURE"
    /\ [i \in 1..2 |-> total_obj_list[1].edp_list[i].filters] = <<F555W, F814W>>
    /\ Len(total_obj_list[1].edp_list) = 2
    /\ ramp_product_list = <<>>

-----------------------------------------------------------------------------
(* update_active_wcs on its own *)

\* Number of successive calls of update_active_wcs on the file.
MaxActiveCalls == 2

IdcNames == {IDC_GSC240, IDC_PLAIN}

\* The files enumerated: hdus[1] is the content of the one file. The names that
\* cannot be restored are names the file holds.
AllHdus ==
    {Hdu(NoWcs, {}, FALSE, {}, {}, "COMPLETE")}
        \cup {[Hdu(w, a, o, hl, u, "COMPLETE") EXCEPT !.fit_keywords = fit] :
                 w \in WcsNames, a \in SUBSET IdcNames, o \in BOOLEAN,
                 hl \in SUBSET IdcNames, u \in SUBSET IdcNames, fit \in BOOLEAN}

WellFormedHdu(hdu) ==
    /\ hdu.wcsname \notin hdu.alternates
    /\ hdu.unrestorable \subseteq hdu.alternates \cup hdu.headerlets
    /\ hdu.opus => hdu.wcsname # OPUS

ActiveInit ==
    /\ rows = <<[detector |-> "uvis", filters |-> F555W]>>
    /\ hdus \in {<<hdu>> : hdu \in {h \in AllHdus : WellFormedHdu(h)}}
    /\ diagnostic_mode = FALSE
    /\ pc = "ACTIVE"
    /\ env_error = NoSwitch
    /\ item = 1
    /\ exc = "none"
    /\ total_obj_list = <<>>
    /\ manifest_name = NoName
    /\ found_data = FALSE
    /\ product_list = <<>>
    /\ mfile_list = <<>>
    /\ grism_product_list = <<>>
    /\ ramp_product_list = <<>>
    /\ catalog_args = NotCalled
    /\ return_value = IntVal(0)
    /\ files = {FullFilename(Exposure(rows, 1))}
    /\ manifest = [written |-> FALSE, lines |-> <<>>]
    /\ trailers = {}
    /\ calls = <<>>
    /\ finalized = 0

\* One call update_active_wcs(filename, wcsname) with a name the file holds;
\* the event has the target as filt and how the call ended as status.
UpdateActiveWcs ==
    /\ pc = "ACTIVE"
    /\ Len(calls) < MaxActiveCalls
    /\ \E wcsname \in all_wcs_names(hdus[1]) :
         LET r == update_active_wcs(hdus[1], wcsname)
         IN  /\ hdus' = [hdus EXCEPT ![1] = r.hdu]
             /\ calls' = Append(calls, [op |-> "update_active_wcs", det |-> "uvis",
                                        filt |-> wcsname, n |-> 1, status |-> r.status])
             /\ pc' = IF r.status = "raised" THEN "ACTIVE_RAISED" ELSE pc
             /\ exc' = IF r.status = "raised" THEN "Exception" ELSE exc
    /\ UNCHANGED <<rows, diagnostic_mode, item, total_obj_list, manifest_name,
                   found_data, product_list, mfile_list, grism_product_list,
                   ramp_product_list, catalog_args, return_value, files, manifest,
                   trailers, finalized, env_error>>

ActiveNext == UpdateActiveWcs

ActiveWcsSpec == ActiveInit /\ [][ActiveNext]_vars

\* The keywords of the SCI header, as opposed to the headerlet extensions.
SciHeader(hdu) ==
    [wcsname |-> hdu.wcsname, alternates |-> hdu.alternates, opus |-> hdu.opus,
     drizcorr |-> hdu.drizcorr, hdrname |-> hdu.hdrname, fit_keywords |-> hdu.fit_keywords]

LastCall == calls'[Len(calls')]

\* C20 (as amended): a call of update_active_wcs whose target is already the
\* active WCS changes no keyword of the SCI header; when moreover every
\* solution of the SCI header, the active one included, is already archived as
\* a headerlet, the call changes nothing in the file; and a call with the same
\* target as the call before leaves the file as that call left it.
C20_UpdateActiveWcsIdempotent ==
    [][pc = "ACTIVE" /\ Len(calls') = Len(calls) + 1 =>
          /\ hdus[1].wcsname = LastCall.filt =>
                 SciHeader(hdus'[1]) = SciHeader(hdus[1])
          /\ (/\ hdus[1].wcsname = LastCall.filt
              /\ {hdus[1].wcsname} \cup hdus[1].alternates \subseteq hdus[1].headerlets) =>
                 hdus'[1] = hdus[1]
          /\ (calls # <<>> /\ calls[Len(calls)].filt = LastCall.filt) =>
                 hdus'[1] = hdus[1]]_vars

\* C20: as above, with the condition of the second part as stated: every
\* alternate WCS of the file is already archived.
C20_NothingChangesWhenAlternatesArchived ==
    [][pc = "ACTIVE" /\ Len(calls') = Len(calls) + 1 =>
          /\ hdus[1].wcsname = LastCall.filt =>
                 SciHeader(hdus'[1]) = SciHeader(hdus[1])
          /\ (/\ hdus[1].wcsname = LastCall.filt
              /\ hdus[1].alternates \cup (IF hdus[1].opus THEN {OPUS} ELSE {})
                     \subseteq hdus[1].headerlets) =>
                 hdus'[1] = hdus[1]
          /\ (calls # <<>> /\ calls[Len(calls)].filt = LastCall.filt) =>
                 hdus'[1] = hdus[1]]_vars

\* The target was restored by a first call and found active by a second one,
\* in a file that had fit-quality keywords and an unarchived alternate.
C20_Witness ==
    /\ pc = "ACTIVE"
    /\ Len(calls) = 2
    /\ calls[1].filt = calls[2].filt
    /\ calls[1].status = "restored"
    /\ calls[2].status = "active"
    /\ hdus[1].wcsname = calls[2].filt
    /\ hdus[1].alternates # {}
    /\ hdus[1].alternates \subseteq hdus[1].headerlets

-----------------------------------------------------------------------------
(* update_wcs_in_visit on its own *)

\* Most grism/prism images and most direct images of the TotalProduct.
MaxGrism == 2
MaxDirect == 2

\* The files enumerated for the images of the visit: without any WCS solution;
\* the preferred solution active and archived; the preferred solution active,
\* nothing archived; the preferred solution as an alternate of a file still to
\* be refreshed; the preferred solution in a headerlet that cannot be
\* restored; the default IDC solution only; the OPUS solution only.
VisitHdus ==
    {Hdu(NoWcs, {}, FALSE, {}, {}, "COMPLETE"),
     Hdu(IDC_GSC240, {}, FALSE, {IDC_GSC240}, {}, "COMPLETE"),
     Hdu(IDC_GSC240, {IDC_PLAIN}, TRUE, {}, {}, "COMPLETE"),
     Hdu(IDC_PLAIN, {IDC_GSC240}, TRUE, {}, {}, "OMIT"),
     Hdu(IDC_PLAIN, {}, FALSE, {IDC_PLAIN, IDC_GSC240}, {IDC_GSC240}, "COMPLETE"),
     Hdu(IDC_PLAIN, {}, FALSE, {IDC_PLAIN}, {}, "COMPLETE"),
     Hdu(OPUS, {}, FALSE, {}, {}, "OMIT")}

\* The poller rows of one detector with ng grism and nd direct exposures.
WcsRows(ng, nd) ==
    [i \in 1..(ng + nd) |->
        [detector |-> "uvis", filters |-> IF i <= ng THEN G280 ELSE F555W]]

WcsInit ==
    /\ rows \in {WcsRows(ng, nd) : ng \in 1..MaxGrism, nd \in 1..MaxDirect}
    /\ hdus \in [1..Len(rows) -> VisitHdus]
    /\ diagnostic_mode = FALSE
    /\ pc = "WCS"
    /\ env_error = NoSwitch
    /\ item = 1
    /\ exc = "none"
    /\ total_obj_list = interpret_obset_input(rows)
    /\ manifest_name = NoName
    /\ found_data = TRUE
    /\ product_list = <<>>
    /\ mfile_list = <<>>
    /\ grism_product_list = <<>>
    /\ ramp_product_list = <<>>
    /\ catalog_args = NotCalled
    /\ return_value = IntVal(0)
    /\ files = {FullFilename(Exposure(rows, i)) : i \in 1..Len(rows)}
    /\ manifest = [written |-> FALSE, lines |-> <<>>]
    /\ trailers = {}
    /\ calls = <<>>
    /\ finalized = 0

\* One call update_wcs_in_visit(total_obj_list[1]).
UpdateWcsInVisit ==
    /\ pc = "WCS"
    /\ LET r == update_wcs_in_visit_files(total_obj_list[1], hdus, files)
       IN  /\ hdus' = r.hdus
           /\ files' = r.u.files
           /\ grism_product_list' = r.u.grism_product_list
           /\ total_obj_list' = [total_obj_list EXCEPT ![1].grism_edp_list = r.u.grism_edp_list]
           /\ calls' = calls \o r.events
           /\ exc' = IF r.u.exit THEN "SystemExit" ELSE exc
           /\ pc' = IF r.u.exit THEN "WCS_EXIT" ELSE "WCS_DONE"
    /\ UNCHANGED <<rows, diagnostic_mode, item, manifest_name, found_data, product_list,
                   mfile_list, ramp_product_list, catalog_args, return_value, manifest,
                   trailers, finalized, env_error>>

WcsNext == UpdateWcsInVisit

WcsSpec == WcsInit /\ [][WcsNext]_vars

\* The images of the TotalProduct as parsed, and the set of names common to
\* the images of a list that hold any name (empty when none holds any).
GrismImages == ParsedTotals[1].grism_edp_list
DirectImages == ParsedTotals[1].edp_list
HoldsNames(e) == all_wcs_names(hdus[e.n]) # {}
CommonNames(edp_list) ==
    LET holding == {e \in Range(edp_list) : HoldsNames(e)}
    IN  {nm \in WcsNames : holding # {} /\ \A e \in holding : nm \in all_wcs_names(hdus[e.n])}

\* collect_wcs_names ends with sys.exit(1) on a list: at some image the names
\* common to the images read so far run out.
RunsOut(edp_list) ==
    \E i \in 1..Len(edp_list) :
        /\ HoldsNames(edp_list[i])
        /\ CommonNames(SubSeq(edp_list, 1, i)) = {}

MatchesPreference(nm) == fnmatch(nm, wcs_preference[1]) \/ fnmatch(nm, wcs_preference[2])

\* The call reaches the test of line 1084 and finds the two sets disjoint.
DisjointSets ==
    /\ ~RunsOut(GrismImages)
    /\ \E nm \in CommonNames(GrismImages) : MatchesPreference(nm)
    /\ ~RunsOut(DirectImages)
    /\ CommonNames(GrismImages) \cap CommonNames(DirectImages) = {}

NumbersOf(edp_list) == {edp_list[i].n : i \in 1..Len(edp_list)}

\* C16 (as amended): when update_wcs_in_visit reaches the test of the two
\* common sets and finds them disjoint, it returns the empty list, calls
\* update_active_wcs on no image and changes no WCS solution of any image; the
\* only files deleted are the grism images without any WCS solution, and the
\* only files written are the direct images, refreshed before the test
\* (updatewcs where DRIZCORR is OMIT, HDRNAME populated).
C16_DisjointSets ==
    [][pc = "WCS" /\ DisjointSets =>
          /\ pc' = "WCS_DONE"
          /\ grism_product_list' = <<>>
          /\ calls' = calls
          /\ files \ files' = {FullFilename(e) : e \in {g \in Range(GrismImages) : ~HoldsNames(g)}}
          /\ files' \subseteq files
          /\ \A n \in NumbersOf(GrismImages) : hdus'[n] = hdus[n]
          /\ \A n \in NumbersOf(DirectImages) :
                 hdus'[n] = [hdus[n] EXCEPT !.updatewcs = @ \/ hdus[n].drizcorr = "OMIT",
                                            !.hdrname = TRUE]]_vars

\* C16: when the two common sets are disjoint, no image file, grism or direct,
\* is modified or deleted by the call and the returned list is empty.
C16_DisjointNothingTouched ==
    [][pc = "WCS" /\ DisjointSets =>
          /\ pc' = "WCS_DONE"
          /\ grism_product_list' = <<>>
          /\ files' = files
          /\ hdus' = hdus]_vars

\* A call has returned on disjoint sets after deleting a grism image without
\* WCS solution and refreshing a direct image whose DRIZCORR was OMIT.
C16_Witness ==
    /\ pc = "WCS_DONE"
    /\ DisjointSets
    /\ grism_product_list = <<>>
    /\ \E g \in Range(GrismImages) : FullFilename(g) \notin files
    /\ \E d \in Range(DirectImages) : hdus[d.n].updatewcs
    /\ \E d \in Range(DirectImages) : ~hdus[d.n].updatewcs

\* The update_active_wcs calls of the step that restore a headerlet as the
\* active WCS.
Rewrites == {i \in (Len(calls) + 1)..Len(calls') : calls'[i].status = "restored"}

BothSetsCollected == ~RunsOut(GrismImages) /\ ~RunsOut(DirectImages)
Intersection == CommonNames(GrismImages) \cap CommonNames(DirectImages)

\* C17: whenever update_wcs_in_visit rewrites an active WCS, the name it uses
\* is in the intersection of the grism common set and the direct common set,
\* matches one of the two preference patterns, and matches
\* 'IDC_?????????-GSC240' whenever a name of the intersection does; when no
\* name of the intersection matches either pattern, no active WCS is rewritten
\* and the returned list is empty.
C17_FinalWcsName ==
    [][pc = "WCS" =>
          /\ \A i \in (Len(calls) + 1)..Len(calls') :
                 /\ BothSetsCollected
                 /\ calls'[i].filt \in Intersection
                 /\ MatchesPreference(calls'[i].filt)
                 /\ (\E nm \in Intersection : fnmatch(nm, wcs_preference[1])) =>
                        fnmatch(calls'[i].filt, wcs_preference[1])
                 /\ calls'[i].status = "restored" <=>
                        hdus'[calls'[i].n].wcsname # hdus[calls'[i].n].wcsname
          /\ \A n \in DOMAIN hdus :
                 hdus'[n].wcsname # hdus[n].wcsname =>
                     \E i \in Rewrites : calls'[i].n = n /\ hdus'[n].wcsname = calls'[i].filt
          /\ (BothSetsCollected /\ ~\E nm \in Intersection : MatchesPreference(nm)) =>
                 /\ \A n \in DOMAIN hdus : hdus'[n].wcsname = hdus[n].wcsname
                 /\ calls' = calls
                 /\ grism_product_list' = <<>>]_vars

\* A call has restored the GSC240 solution in a grism image and in a direct
\* image whose common names held the default IDC solution as well.
C17_Witness ==
    /\ pc = "WCS_DONE"
    /\ {IDC_GSC240, IDC_PLAIN} \subseteq Intersection
    /\ \E i \in CallIndices : \E j \in CallIndices :
         /\ calls[i].status = "restored" /\ calls[i].n \in NumbersOf(GrismImages)
         /\ calls[j].status = "restored" /\ calls[j].n \in NumbersOf(DirectImages)
         /\ calls[i].filt = IDC_GSC240

InList(e) == FullFilename(e) \in Range(grism_product_list) /\ TrlFilename(e) \in Range(grism_product_list)

\* C18: the list returned by update_wcs_in_visit holds the file name and the
\* trailer name of a grism image if and only if the active WCS of that image
\* was successfully updated to the final name: a skipped image, or one whose
\* restore failed inside update_active_wcs, is not in the list.
C18_ListedIffUpdated ==
    pc = "WCS_DONE" =>
        \A g \in Range(GrismImages) :
            InList(g) <=> \E i \in CallIndices :
                              /\ calls[i].op = "update_active_wcs"
                              /\ calls[i].n = g.n
                              /\ hdus[g.n].wcsname = calls[i].filt

\* What the code does: the list holds the grism images update_active_wcs was
\* called on, whether the restore succeeded or not.
ListedIffCalled ==
    pc = "WCS_DONE" =>
        \A g \in Range(GrismImages) :
            /\ InList(g) <=> \E i \in CallIndices : calls[i].op = "update_active_wcs" /\ calls[i].n = g.n
            /\ ~HoldsNames(g) => ~InList(g)
            /\ Count(FullFilename(g), grism_product_list) <= 1

\* A grism image is listed although the restore of the final name failed.
ListedAfterFailedRestore ==
    /\ pc = "WCS_DONE"
    /\ \E g \in Range(GrismImages) : \E i \in CallIndices :
         calls[i].n = g.n /\ calls[i].status = "failed" /\ InList(g)

NoPreferredGrismName ==
    /\ ~RunsOut(GrismImages)
    /\ ~\E nm \in CommonNames(GrismImages) : MatchesPreference(nm)

\* C19: when no preference pattern matches the names common to the grism
\* images, every grism image of the detector is deleted, the grism list of the
\* TotalProduct becomes empty, the empty list is returned and the call does not
\* terminate the run, also when one of the grism images was deleted earlier in
\* the call for want of any WCS solution.
C19_GrismImagesDeleted ==
    (pc \in {"WCS_DONE", "WCS_EXIT"} /\ NoPreferredGrismName) =>
        /\ pc = "WCS_DONE"
        /\ exc = "none"
        /\ \A g \in Range(GrismImages) : FullFilename(g) \notin files
        /\ total_obj_list[1].grism_edp_list = <<>>
        /\ grism_product_list = <<>>

\* What the code does: the claim holds when every grism image holds a WCS
\* solution; when one holds none, os.remove fails on it at line 1046, the
\* OSError is passed and sys.exit(1) ends the call with the later images kept.
GrismImagesDeletedOrExit ==
    (pc \in {"WCS_DONE", "WCS_EXIT"} /\ NoPreferredGrismName) =>
        /\ grism_product_list = <<>>
        /\ \A n \in DOMAIN hdus : hdus[n].wcsname \in {h.wcsname : h \in VisitHdus}
        /\ IF \A g \in Range(GrismImages) : HoldsNames(g)
             THEN /\ pc = "WCS_DONE"
                  /\ \A g \in Range(GrismImages) : FullFilename(g) \notin files
                  /\ total_obj_list[1].grism_edp_list = <<>>
             ELSE /\ pc = "WCS_EXIT"
                  /\ exc = "SystemExit"
                  /\ total_obj_list[1].grism_edp_list = GrismImages

-----------------------------------------------------------------------------
(* Properties of update_active_wcs: failures *)

\* C21: for any file and any target name the file holds, as a keyed alternate
\* WCS (the one under key 'O' included) or as a headerlet, update_active_wcs
\* returns normally: a failure to make the target active never raises to the
\* caller.
C21_ReturnsNormally ==
    pc \in {"ACTIVE", "ACTIVE_RAISED"} =>
        /\ pc = "ACTIVE"
        /\ exc = "none"
        /\ \A i \in CallIndices : calls[i].status # "raised"

\* What the code does: a restore that fails is swallowed, but a target held
\* under key 'O' only has no headerlet after archive_alternate_wcs, and
\* list.index raises ValueError out of the call at line 1284.
RaisesOnlyForKeyO ==
    pc \in {"ACTIVE", "ACTIVE_RAISED"} =>
        /\ \A i \in CallIndices :
             calls[i].status = "raised" =>
                 /\ i = Len(calls)
                 /\ pc = "ACTIVE_RAISED"
                 /\ calls[i].filt = OPUS
                 /\ hdus[1].opus
                 /\ OPUS \notin hdus[1].headerlets
                 /\ hdus[1].wcsname # OPUS
        /\ pc = "ACTIVE_RAISED" => calls # <<>> /\ calls[Len(calls)].status = "raised"

\* A restore has failed inside update_active_wcs and the call has returned.
FailedRestoreReturned ==
    /\ pc = "ACTIVE"
    /\ \E i \in CallIndices : calls[i].status = "failed"

-----------------------------------------------------------------------------
(* poller_utils: determine_filter_name *)

UpperCase == <<"A", "B", "C", "D", "E", "F", "G", "H", "I", "J", "K", "L", "M",
               "N", "O", "P", "Q", "R", "S", "T", "U", "V", "W", "X", "Y", "Z">>
LowerCase == <<"a", "b", "c", "d", "e", "f", "g", "h", "i", "j", "k", "l", "m",
               "n", "o", "p", "q", "r", "s", "t", "u", "v", "w", "x", "y", "z">>

\* str.lower, str.startswith, the 'in' test of two strings, str.split,
\* str.join and list.reverse, on strings as sequences of characters.
str_lower(s) ==
    [i \in 1..Len(s) |->
        IF \E k \in 1..Len(UpperCase) : UpperCase[k] = s[i]
          THEN LowerCase[CHOOSE k \in 1..Len(UpperCase) : UpperCase[k] = s[i]]
          ELSE s[i]]

str_startswith(s, prefix) ==
    Len(s) >= Len(prefix) /\ SubSeq(s, 1, Len(prefix)) = prefix

str_in(sub, s) ==
    \E i \in 1..(Len(s) - Len(sub) + 1) : SubSeq(s, i, i + Len(sub) - 1) = sub

RECURSIVE str_split(_, _)
str_split(s, sep) ==
    IF \A i \in 1..Len(s) : s[i] # sep THEN <<s>>
    ELSE LET i == CHOOSE j \in 1..Len(s) : s[j] = sep /\ \A k \in 1..(j - 1) : s[k] # sep
         IN  <<SubSeq(s, 1, i - 1)>> \o str_split(SubSeq(s, i + 1, Len(s)), sep)

RECURSIVE str_join(_, _)
str_join(sep, list) ==
    IF list = <<>> THEN <<>>
    ELSE IF Len(list) = 1 THEN list[1]
    ELSE list[1] \o <<sep>> \o str_join(sep, Tail(list))

list_reverse(list) == [i \in 1..Len(list) |-> list[Len(list) + 1 - i]]

CLEAR == <<"c", "l", "e", "a", "r">>
POL == <<"p", "o", "l">>

\* A faulty resolution: the raw name is not lower-cased.
determine_filter_name_as_written(raw_filter) ==
    LET filter_list == str_split(raw_filter, ";")
        output_filter_list == SelectSeq(filter_list, LAMBDA filt : ~str_in(CLEAR, filt))
    IN  IF output_filter_list = <<>> THEN CLEAR
        ELSE str_join("-", IF str_startswith(output_filter_list[1], POL)
                             THEN list_reverse(output_filter_list)
                             ELSE output_filter_list)

\* A faulty resolution: the polarizer stays where it was given.
determine_filter_name_in_order(raw_filter) ==
    LET filter_list == str_split(str_lower(raw_filter), ";")
        output_filter_list == SelectSeq(filter_list, LAMBDA filt : ~str_in(CLEAR, filt))
    IN  IF output_filter_list = <<>> THEN CLEAR
        ELSE str_join("-", output_filter_list)

\* determine_filter_name(raw_filter), lines 244-268.
determine_filter_name(raw_filter) ==
    LET filter_list == str_split(str_lower(raw_filter), ";")
        output_filter_list == SelectSeq(filter_list, LAMBDA filt : ~str_in(CLEAR, filt))
    IN  IF output_filter_list = <<>> THEN CLEAR
        ELSE str_join("-", IF str_startswith(output_filter_list[1], POL)
                             THEN list_reverse(output_filter_list)
                             ELSE output_filter_list)

\* Most filter names in one raw filter string, and the number of successive
\* resolutions of one string.
MaxComponents == 2
MaxResolutions == 2

\* The filter names enumerated for one wheel, as the poller writes them.
RawF555W == <<"F", "5", "5", "5", "W">>
RawF606W == <<"f", "6", "0", "6", "W">>
RawClear1L == <<"C", "L", "E", "A", "R", "1", "L">>
RawClear2L == <<"C", "l", "e", "a", "r", "2", "L">>
RawPol60 == <<"P", "O", "L", "6", "0">>
RawPol0 == <<"p", "o", "l", "0", "V">>
RawComponents == {RawF555W, RawF606W, RawClear1L, RawClear2L, RawPol60, RawPol0, <<>>}

ComponentLists == UNION {[1..n -> RawComponents] : n \in 1..MaxComponents}
RawFilters == {str_join(";", comps) : comps \in ComponentLists}

\* rows[1].filters is the string handed to determine_filter_name, which
\* build_obset_tree stores back into the row (line 98); calls holds one event
\* per resolution, its filt the name returned.
FilterInit ==
    /\ rows \in {<<[detector |-> "wfc", filters |-> raw]>> : raw \in RawFilters}
    /\ hdus = <<>>
    /\ diagnostic_mode = FALSE
    /\ pc = "FILTER"
    /\ env_error = NoSwitch
    /\ item = 1
    /\ exc = "none"
    /\ total_obj_list = <<>>
    /\ manifest_name = NoName
    /\ found_data = FALSE
    /\ product_list = <<>>
    /\ mfile_list = <<>>
    /\ grism_product_list = <<>>
    /\ ramp_product_list = <<>>
    /\ catalog_args = NotCalled
    /\ return_value = IntVal(0)
    /\ files = {}
    /\ manifest = [written |-> FALSE, lines |-> <<>>]
    /\ trailers = {}
    /\ calls = <<>>
    /\ finalized = 0

DetermineFilterName ==
    /\ pc = "FILTER"
    /\ Len(calls) < MaxResolutions
    /\ LET filt == determine_filter_name(rows[1].filters)
       IN  /\ rows' = [rows EXCEPT ![1].filters = filt]
           /\ calls' = Append(calls, [op |-> "determine_filter_name", det |-> "wfc",
                                      filt |-> filt, n |-> 1, status |-> "ok"])
    /\ UNCHANGED <<hdus, diagnostic_mode, pc, item, exc, total_obj_list, manifest_name,
                   found_data, product_list, mfile_list, grism_product_list,
                   ramp_product_list, catalog_args, return_value, files, manifest,
                   trailers, finalized, env_error>>

FilterNext == DetermineFilterName

FilterSpec == FilterInit /\ [][FilterNext]_vars

IsLowerCase(s) == \A i \in 1..Len(s) : \A k \in 1..Len(UpperCase) : s[i] # UpperCase[k]
Survivors(comps) ==
    SelectSeq([i \in 1..Len(comps) |-> str_lower(comps[i])], LAMBDA c : ~str_in(CLEAR, c))
Resolved == rows'[1].filters
FirstResolution == pc = "FILTER" /\ calls = <<>> /\ Len(calls') = 1

\* C22 (as amended): determine_filter_name returns the lower-cased components
\* that do not contain 'clear', joined with '-' in the order given, or in
\* reversed order when the first of them starts with 'pol'; the literal
\* 'clear' when no component survives; the result is lower-case and contains
\* 'clear' only when it equals 'clear'.
C22_FilterName ==
    [][FirstResolution =>
          /\ \A comps \in ComponentLists :
                 str_join(";", comps) = rows[1].filters =>
                     LET kept == Survivors(comps)
                     IN  Resolved = IF kept = <<>> THEN CLEAR
                                    ELSE IF str_startswith(kept[1], POL)
                                      THEN str_join("-", list_reverse(kept))
                                    ELSE str_join("-", kept)
          /\ IsLowerCase(Resolved)
          /\ str_in(CLEAR, Resolved) => Resolved = CLEAR
          /\ rows[1].filters = RawF555W => Resolved = F555W
          /\ rows[1].filters = str_join(";", <<RawClear1L, RawClear2L>>) => Resolved = CLEAR
          /\ rows[1].filters = str_join(";", <<RawF606W, RawPol60>>) =>
                 Resolved = <<"f", "6", "0", "6", "w", "-", "p", "o", "l", "6", "0">>]_vars

\* C22: the result is the lower-cased components that do not contain 'clear',
\* joined with '-', and 'clear' when none survives.
C22_FilterNameInOrder ==
    [][FirstResolution =>
          /\ \A comps \in ComponentLists :
                 str_join(";", comps) = rows[1].filters =>
                     LET kept == Survivors(comps)
                     IN  Resolved = IF kept = <<>> THEN CLEAR ELSE str_join("-", kept)
          /\ IsLowerCase(Resolved)
          /\ str_in(CLEAR, Resolved) => Resolved = CLEAR]_vars

\* A name with a polarizer has been resolved: the polarizer stands last.
C22_Witness ==
    /\ pc = "FILTER"
    /\ Len(calls) = 1
    /\ calls[1].filt = str_join("-", <<F555W, str_lower(RawPol0)>>)
    /\ rows[1].filters = calls[1].filt

IsPolarizer(comp) == str_startswith(str_lower(comp), POL)
IsClear(comp) == str_in(CLEAR, str_lower(comp))

\* C23: for a two-component input with exactly one polarizer and another
\* component that is neither clear nor a polarizer, the result is the same for
\* both orders, with the polarizer second; and determine_filter_name applied
\* to its own result returns that result unchanged.
C23_PolarizerSecond ==
    [][(pc = "FILTER" /\ Len(calls') = Len(calls) + 1) =>
          /\ calls = <<>> =>
                 \A filt \in RawComponents, polarizer \in RawComponents :
                     (/\ IsPolarizer(polarizer)
                      /\ ~IsPolarizer(filt)
                      /\ ~IsClear(filt)
                      /\ rows[1].filters \in {str_join(";", <<filt, polarizer>>),
                                              str_join(";", <<polarizer, filt>>)})
                         => Resolved = str_lower(filt) \o <<"-">> \o str_lower(polarizer)
          /\ calls # <<>> => Resolved = rows[1].filters]_vars

\* F606W with POL60 has been resolved twice.
C23_Witness ==
    /\ pc = "FILTER"
    /\ Len(calls) = 2
    /\ calls[1].filt = <<"f", "6", "0", "6", "w", "-", "p", "o", "l", "6", "0">>
    /\ calls[2].filt = calls[1].filt

-----------------------------------------------------------------------------
(* poller_utils: build_obset_tree and parse_obset_tree *)

\* The obset tree is a dict of dicts of lists; a Python dict keeps its keys in
\* the order of their insertion, so each level is a sequence of nodes.
insert_row(obset_tree, det, filt, entry) ==
    IF \A k \in 1..Len(obset_tree) : obset_tree[k].det # det
      THEN Append(obset_tree, [det |-> det,
                               filts |-> <<[filt |-> filt, files |-> <<entry>>]>>])
      ELSE LET k == CHOOSE m \in 1..Len(obset_tree) : obset_tree[m].det = det
               det_node == obset_tree[k].filts
           IN  IF \A j \in 1..Len(det_node) : det_node[j].filt # filt
                 THEN [obset_tree EXCEPT ![k].filts =
                          Append(det_node, [filt |-> filt, files |-> <<entry>>])]
                 ELSE LET j == CHOOSE m \in 1..Len(det_node) : det_node[m].filt = filt
                      IN  [obset_tree EXCEPT ![k].filts[j].files = Append(@, entry)]

\* create_row_info(row): the info string and the filename of the row.
create_row_info(obset_table, i, filt) ==
    [n |-> i, detector |-> obset_table[i].detector, filters |-> filt,
     suffix |-> obset_table[i].suffix]

\* A faulty tree: the rows are grouped by the 'filters' string as the poller
\* wrote it.
RECURSIVE build_obset_tree_unresolved(_)
build_obset_tree_unresolved(obset_table) ==
    IF obset_table = <<>> THEN <<>>
    ELSE LET i == Len(obset_table)
             row == obset_table[i]
         IN  insert_row(build_obset_tree_unresolved(SubSeq(obset_table, 1, i - 1)),
                        row.detector, str_lower(row.filters),
                        create_row_info(obset_table, i, str_lower(row.filters)))

\* build_obset_tree(obset_table), lines 89-112.
RECURSIVE build_obset_tree(_)
build_obset_tree(obset_table) ==
    IF obset_table = <<>> THEN <<>>
    ELSE LET i == Len(obset_table)
             row == obset_table[i]
             filt == determine_filter_name(row.filters)
         IN  insert_row(build_obset_tree(SubSeq(obset_table, 1, i - 1)),
                        row.detector, filt, create_row_info(obset_table, i, filt))

\* The table after build_obset_tree: row['filters'] = filt (line 99).
resolved_table(obset_table) ==
    [i \in 1..Len(obset_table) |->
        [obset_table[i] EXCEPT !.filters = determine_filter_name(obset_table[i].filters)]]

\* '{:02d}'.format(indx): the decimal digits, two at least.
RECURSIVE Digits(_)
Digits(indx) == IF indx < 10 THEN <<indx>> ELSE Append(Digits(indx \div 10), indx % 10)
format_02d(indx) == IF indx < 10 THEN <<0, indx>> ELSE Digits(indx)

SEP_STR(indx) == [kind |-> "single exposure product", nn |-> format_02d(indx)]
FP_STR(indx) == [kind |-> "filter product", nn |-> format_02d(indx)]
TDP_STR(indx) == [kind |-> "total detection product", nn |-> format_02d(indx)]

RECURSIVE SumLen(_)
SumLen(lists) == IF lists = <<>> THEN 0 ELSE Len(lists[1]) + SumLen(Tail(lists))

\* The files of one detector, filter by filter, in the order of the loops of
\* lines 156 and 162.
detector_files(filt_tree) == Concat([j \in 1..Len(filt_tree) |-> filt_tree[j].files])

\* filt_indx and sep_indx when the loop of line 151 reaches detector k, filter j.
filt_indx_at(det_tree, k, j) ==
    SumLen([m \in 1..(k - 1) |-> det_tree[m].filts]) + (j - 1)
sep_indx_at(det_tree, k, j) ==
    SumLen([m \in 1..(k - 1) |-> detector_files(det_tree[m].filts)])
        + SumLen([m \in 1..(j - 1) |-> det_tree[k].filts[m].files])

\* filetype is decided on the first file of each detector (lines 164-168).
filetype_of(filt_tree) ==
    IF filt_tree[1].files[1].suffix = "flt" THEN "drz" ELSE "drc"

\* ExposureProduct(...) of line 181.
exposure_product(filename, filetype) ==
    [n |-> filename.n, detector |-> str_lower(filename.detector),
     filters |-> str_lower(filename.filters), filetype |-> filetype]

\* parse_obset_tree(det_tree), lines 136-218: obset_products as the set of its
\* items, and tdp_list.
parse_obset_tree(det_tree) ==
    LET sep_objs(k, j) ==
            [i \in 1..Len(det_tree[k].filts[j].files) |->
                exposure_product(det_tree[k].filts[j].files[i], filetype_of(det_tree[k].filts))]
        filt_obj(k, j) ==
            LET first == sep_objs(k, j)[1]
            IN  [n |-> 0, detector |-> first.detector, filters |-> first.filters,
                 filetype |-> first.filetype, edp_list |-> sep_objs(k, j)]
        tdp_obj(k) ==
            LET first == sep_objs(k, 1)[1]
            IN  [n |-> 0, detector |-> first.detector, filters |-> NoFilter,
                 filetype |-> first.filetype,
                 edp_list |-> Concat([j \in 1..Len(det_tree[k].filts) |-> sep_objs(k, j)]),
                 fdp_list |-> [j \in 1..Len(det_tree[k].filts) |-> filt_obj(k, j)]]
        numbers(list) == [i \in 1..Len(list) |-> list[i].n]
    IN  [obset_products |->
            {[key |-> TDP_STR(k - 1), files |-> numbers(detector_files(det_tree[k].filts))] :
                 k \in 1..Len(det_tree)}
            \cup UNION {{[key |-> FP_STR(filt_indx_at(det_tree, k, j)),
                          files |-> numbers(det_tree[k].filts[j].files)] :
                             j \in 1..Len(det_tree[k].filts)} : k \in 1..Len(det_tree)}
            \cup UNION {UNION {{[key |-> SEP_STR(sep_indx_at(det_tree, k, j) + i - 1),
                                 files |-> <<det_tree[k].filts[j].files[i].n>>] :
                                    i \in 1..Len(det_tree[k].filts[j].files)} :
                                 j \in 1..Len(det_tree[k].filts)} : k \in 1..Len(det_tree)},
         tdp_list |-> [k \in 1..Len(det_tree) |-> tdp_obj(k)]]

\* Most rows in one poller table.
MaxPollerRows == 3

UVIS == <<"U", "V", "I", "S">>
IR == <<"I", "R">>
PollerFilters == {RawF555W, str_join(";", <<RawClear1L, RawF555W>>), RawF606W}
PollerRow == [detector : {UVIS, IR}, filters : PollerFilters, suffix : {"flt", "flc"}]

PollerInit ==
    /\ rows \in UNION {[1..n -> PollerRow] : n \in 0..MaxPollerRows}
    /\ hdus = <<>>
    /\ diagnostic_mode = FALSE
    /\ pc = "POLLER"
    /\ env_error = NoSwitch
    /\ item = 1
    /\ exc = "none"
    /\ total_obj_list = <<>>
    /\ manifest_name = NoName
    /\ found_data = FALSE
    /\ product_list = <<>>
    /\ mfile_list = <<>>
    /\ grism_product_list = <<>>
    /\ ramp_product_list = <<>>
    /\ catalog_args = NotCalled
    /\ return_value = IntVal(0)
    /\ files = {}
    /\ manifest = [written |-> FALSE, lines |-> <<>>]
    /\ trailers = {}
    /\ calls = <<>>
    /\ finalized = 0

\* Lines 74-77 of interpret_obset_input.
BuildAndParseObsetTree ==
    /\ pc = "POLLER"
    /\ LET obset_tree == build_obset_tree(rows)
       IN  /\ rows' = resolved_table(rows)
           /\ total_obj_list' = parse_obset_tree(obset_tree).tdp_list
    /\ pc' = "POLLER_DONE"
    /\ UNCHANGED <<hdus, diagnostic_mode, item, exc, manifest_name, found_data,
                   product_list, mfile_list, grism_product_list, ramp_product_list,
                   catalog_args, return_value, files, manifest, trailers, calls,
                   finalized, env_error>>

PollerNext == BuildAndParseObsetTree

PollerSpec == PollerInit /\ [][PollerNext]_vars

\* The rows of one detector and of one (detector, resolved filter), by number.
RowsOf(det) == SelectSeq([i \in 1..Len(rows) |-> i], LAMBDA i : rows[i].detector = det)
ResolvedFilter(i) == determine_filter_name(rows[i].filters)
RowsOfFilter(det, filt) == SelectSeq(RowsOf(det), LAMBDA i : ResolvedFilter(i) = filt)
FiltersOf(det) == FirstSeen([m \in 1..Len(RowsOf(det)) |-> ResolvedFilter(RowsOf(det)[m])])
SeenDetectors == FirstSeen([i \in 1..Len(rows) |-> rows[i].detector])
FilterGroups == SumLen([k \in 1..Len(SeenDetectors) |-> FiltersOf(SeenDetectors[k])])
ObsInfoDict == parse_obset_tree(build_obset_tree(rows)).obset_products
KeysOf(kind, count) == {[kind |-> kind, nn |-> format_02d(indx)] : indx \in 0..(count - 1)}

\* C24: build_obset_tree followed by parse_obset_tree returns one TotalProduct
\* per distinct detector in first-seen order; each TotalProduct has one
\* FilterProduct per distinct resolved filter of that detector in first-seen
\* order; the members of each FilterProduct are exactly the input rows of that
\* detector and filter in input order; and the Obs Info Dict has one key per
\* detector, per filter group and per row, numbered contiguously from 00.
C24_ObsetTree ==
    [][(pc = "POLLER" /\ pc' = "POLLER_DONE") =>
          /\ Len(total_obj_list') = Len(SeenDetectors)
          /\ \A k \in 1..Len(SeenDetectors) :
                 LET det == SeenDetectors[k]
                     tdp == total_obj_list'[k]
                 IN  /\ tdp.detector = str_lower(det)
                     /\ Len(tdp.fdp_list) = Len(FiltersOf(det))
                     /\ \A j \in 1..Len(FiltersOf(det)) :
                            /\ tdp.fdp_list[j].filters = FiltersOf(det)[j]
                            /\ [i \in 1..Len(tdp.fdp_list[j].edp_list) |->
                                   tdp.fdp_list[j].edp_list[i].n]
                                   = RowsOfFilter(det, FiltersOf(det)[j])
          /\ {entry.key : entry \in ObsInfoDict}
                 = KeysOf("total detection product", Len(SeenDetectors))
                       \cup KeysOf("filter product", FilterGroups)
                       \cup KeysOf("single exposure product", Len(rows))
          /\ Cardinality(ObsInfoDict) = Len(SeenDetectors) + FilterGroups + Len(rows)]_vars

\* Two detectors have been parsed; F555W and CLEAR1L;F555W of the first one
\* make one FilterProduct of two members.
C24_Witness ==
    /\ pc = "POLLER_DONE"
    /\ Len(total_obj_list) = 2
    /\ Len(total_obj_list[1].fdp_list) = 1
    /\ Len(total_obj_list[1].fdp_list[1].edp_list) = 2
    /\ total_obj_list[1].fdp_list[1].edp_list[1].n = 1
    /\ total_obj_list[1].fdp_list[1].edp_list[2].n = 3

-----------------------------------------------------------------------------
(* create_catalog_products: exposure times handed to verify_crthresh *)

\* n1_dict after the loop of lines 198-203: one entry per filter in the order
\* of first appearance, with the number of exposures and their summed time.
RECURSIVE n1_dict_of(_)
n1_dict_of(edp_list) ==
    IF edp_list = <<>> THEN <<>>
    ELSE LET d == n1_dict_of(SubSeq(edp_list, 1, Len(edp_list) - 1))
             edp == edp_list[Len(edp_list)]
         IN  IF \A k \in 1..Len(d) : d[k].filters # edp.filters
               THEN Append(d, [filters |-> edp.filters, n |-> 1, texptime |-> edp.exptime])
               ELSE LET k == CHOOSE m \in 1..Len(d) : d[m].filters = edp.filters
                    IN  [d EXCEPT ![k].n = @ + 1, ![k].texptime = @ + edp.exptime]

RECURSIVE sum_texptime(_)
sum_texptime(filter_info) ==
    IF filter_info = <<>> THEN 0
    ELSE filter_info[1].texptime + sum_texptime(Tail(filter_info))

Min(a, b) == IF a < b THEN a ELSE b

\* A faulty computation: the single exposures count in the total as well.
n1_exposure_times_all_filters(total_product_obj, cr_residual) ==
    IF total_product_obj.detector \in {"ir", "sbc"}
      THEN [n1_exposure_time |-> 0, tot_exposure_time |-> 0]
      ELSE LET filter_info == n1_dict_of(total_product_obj.edp_list)
               singles == SelectSeq(filter_info, LAMBDA values : values.n = 1)
               tot == sum_texptime(filter_info)
               multiple == \E k \in 1..Len(filter_info) : filter_info[k].n > 1
               n1 == IF multiple THEN 0 ELSE sum_texptime(singles)
               n1_factor == Min(IF multiple THEN 0 ELSE Len(singles) * cr_residual, 100)
           IN  [n1_exposure_time |-> IF n1 < tot THEN (n1 * n1_factor) \div 100 ELSE n1,
                tot_exposure_time |-> tot]

\* A faulty computation: the factor is applied whatever the two times are.
n1_exposure_times_always_scaled(total_product_obj, cr_residual) ==
    IF total_product_obj.detector \in {"ir", "sbc"}
      THEN [n1_exposure_time |-> 0, tot_exposure_time |-> 0]
      ELSE LET filter_info == n1_dict_of(total_product_obj.edp_list)
               singles == SelectSeq(filter_info, LAMBDA values : values.n = 1)
               multiple == \E k \in 1..Len(filter_info) : filter_info[k].n > 1
               tot == IF multiple
                        THEN sum_texptime(SelectSeq(filter_info, LAMBDA values : values.n > 1))
                        ELSE sum_texptime(singles)
               n1 == IF multiple THEN 0 ELSE sum_texptime(singles)
               n1_factor == Min(IF multiple THEN 0 ELSE Len(singles) * cr_residual, 100)
           IN  [n1_exposure_time |-> (n1 * n1_factor) \div 100,
                tot_exposure_time |-> tot]

\* Lines 184-233: cr_residual and n1_factor are fractions in the code and
\* hundredths here; the exposure times are whole seconds, multiples of ten, so
\* that the product of line 231 is a whole number.  The table is not empty.
n1_exposure_times(total_product_obj, cr_residual) ==
    IF total_product_obj.detector \in {"ir", "sbc"}
      THEN [n1_exposure_time |-> 0, tot_exposure_time |-> 0]
      ELSE LET filter_info == n1_dict_of(total_product_obj.edp_list)
               singles == SelectSeq(filter_info, LAMBDA values : values.n = 1)
               multiple == \E k \in 1..Len(filter_info) : filter_info[k].n > 1
               tot == IF multiple
                        THEN sum_texptime(SelectSeq(filter_info, LAMBDA values : values.n > 1))
                        ELSE sum_texptime(singles)
               n1 == IF multiple THEN 0 ELSE sum_texptime(singles)
               n1_factor == Min(IF multiple THEN 0 ELSE Len(singles) * cr_residual, 100)
           IN  [n1_exposure_time |-> IF n1 < tot THEN (n1 * n1_factor) \div 100 ELSE n1,
                tot_exposure_time |-> tot]

\* Most exposures of the total product whose exposure times are computed.
MaxN1Exp == 3

ExpTimes == {50, 100}
CrResiduals == {30, 60}
N1Exposure == [detector : {"uvis"}, filters : {F555W, F814W}, exptime : ExpTimes]
N1Products ==
    {[n |-> 0, detector |-> det, filters |-> NoFilter, edp_list |-> edps,
      cr_residual |-> cr] :
         det \in {"uvis", "ir"}, cr \in CrResiduals,
         edps \in UNION {[1..n -> N1Exposure] : n \in 1..MaxN1Exp}}

N1Init ==
    /\ total_obj_list \in {<<tdp>> : tdp \in N1Products}
    /\ rows = <<>>
    /\ hdus = <<>>
    /\ diagnostic_mode = FALSE
    /\ pc = "N1"
    /\ env_error = NoSwitch
    /\ item = 1
    /\ exc = "none"
    /\ manifest_name = NoName
    /\ found_data = TRUE
    /\ product_list = <<>>
    /\ mfile_list = <<>>
    /\ grism_product_list = <<>>
    /\ ramp_product_list = <<>>
    /\ catalog_args = NotCalled
    /\ return_value = IntVal(0)
    /\ files = {}
    /\ manifest = [written |-> FALSE, lines |-> <<>>]
    /\ trailers = {}
    /\ calls = <<>>
    /\ finalized = 0

\* catalog_args holds the two times as verify_crthresh receives them (line 332).
ComputeExposureTimes ==
    /\ pc = "N1"
    /\ catalog_args' = [called |-> TRUE, phot_mode |-> "both", off |-> {}]
                          @@ n1_exposure_times(total_obj_list[1], total_obj_list[1].cr_residual)
    /\ pc' = "N1_DONE"
    /\ UNCHANGED <<rows, hdus, diagnostic_mode, item, exc, total_obj_list, manifest_name,
                   found_data, product_list, mfile_list, grism_product_list,
                   ramp_product_list, return_value, files, manifest, trailers, calls,
                   finalized, env_error>>

N1Next == ComputeExposureTimes

N1Spec == N1Init /\ [][N1Next]_vars

ExposuresIn(edp_list, filt) == SelectSeq(edp_list, LAMBDA edp : edp.filters = filt)
RECURSIVE SumExptime(_)
SumExptime(edp_list) ==
    IF edp_list = <<>> THEN 0 ELSE edp_list[1].exptime + SumExptime(Tail(edp_list))
RepeatedFilters(edp_list) ==
    {filt \in {edp_list[i].filters : i \in 1..Len(edp_list)} :
        Len(ExposuresIn(edp_list, filt)) > 1}

\* C25: for a detector other than IR and SBC, whenever at least one filter has
\* more than one exposure, tot_exposure_time is the sum of the exposure times
\* over the filters with more than one exposure only, and the n1_exposure_time
\* passed to verify_crthresh is 0.
C25_RepeatedFiltersOnly ==
    (/\ pc = "N1_DONE"
     /\ total_obj_list[1].detector \notin {"ir", "sbc"}
     /\ RepeatedFilters(total_obj_list[1].edp_list) # {})
        => /\ catalog_args.tot_exposure_time =
                  SumExptime(SelectSeq(total_obj_list[1].edp_list,
                      LAMBDA edp : edp.filters \in RepeatedFilters(total_obj_list[1].edp_list)))
           /\ catalog_args.n1_exposure_time = 0

\* Two exposures of one filter totaling 200, one exposure of 50 in another
\* filter, cr_residual 0.3: a total of 200 and an n1 time of 0.
C25_Witness ==
    /\ pc = "N1_DONE"
    /\ total_obj_list[1].detector = "uvis"
    /\ total_obj_list[1].cr_residual = 30
    /\ total_obj_list[1].edp_list =
           <<[detector |-> "uvis", filters |-> F555W, exptime |-> 100],
             [detector |-> "uvis", filters |-> F814W, exptime |-> 50],
             [detector |-> "uvis", filters |-> F555W, exptime |-> 100]>>
    /\ catalog_args.tot_exposure_time = 200
    /\ catalog_args.n1_exposure_time = 0

-----------------------------------------------------------------------------
(* create_catalog_products: rows removed from the total catalog *)

\* A cell of a Flags_<filter> column is a number or is masked.  Numbers are
\* held in tenths, so that the fill value -9999.9 is the whole number -99999.
Abs(x) == IF x < 0 THEN 0 - x ELSE x
Flag(v) == [masked |-> FALSE, value |-> v]
MaskedFlag == [masked |-> TRUE, value |-> 0]

\* Table.filled(-9999.9), lines 308 and 311: a masked cell takes the fill value
\* converted to the type of its column, which truncates it to -9999 in a
\* column of integers.
filled(cell, dtype) ==
    IF ~cell.masked THEN cell.value * 10
    ELSE IF dtype = "float64" THEN -99999
    ELSE -99990

\* np.isclose(a, b) with its default tolerances: |a - b| <= 1e-8 + 1e-5 * |b|,
\* on numbers in tenths.
isclose(a, b) == Abs(a - b) <= Abs(b) \div 100000

\* Lines 312-321: flag_mask of one row, over its flag columns.
flag_mask(row, dtype, flag_trim_value) ==
    \A col \in DOMAIN row.flags :
        \/ filled(row.flags[col], dtype) > flag_trim_value * 10
        \/ isclose(filled(row.flags[col], dtype), -99999)

\* Lines 323-327: the rows of good_rows_index, in the order of the table.
prune(source_cat, dtype, flag_trim_value) ==
    SelectSeq(source_cat, LAMBDA row : ~flag_mask(row, dtype, flag_trim_value))

\* Most sources in the total catalog that is pruned.
MaxSources == 2

FlagFilters == {"Flags_F606W", "Flags_F814W"}
FlagCells == {Flag(2), Flag(6), MaskedFlag}
FlagDtypes == {"int64", "float64"}
SourceTables ==
    UNION {{[i \in 1..n |-> [ID |-> i, flags |-> f[i]]] : f \in [1..n -> [FlagFilters -> FlagCells]]} :
               n \in 0..MaxSources}

\* catalog_args holds the total catalog of one type as the loop of line 305
\* finds it, the type of its flag columns and flag_trim_value.
PruneInit ==
    /\ catalog_args \in {[called |-> TRUE, phot_mode |-> "both", off |-> {},
                          cat_type |-> cat_type, dtype |-> dtype, flag_trim_value |-> 5,
                          source_cat |-> table, pruned |-> FALSE] :
                             cat_type \in CatalogTypes("both"), dtype \in FlagDtypes,
                             table \in SourceTables}
    /\ total_obj_list = <<>>
    /\ rows = <<>>
    /\ hdus = <<>>
    /\ diagnostic_mode = FALSE
    /\ pc = "PRUNE"
    /\ env_error = NoSwitch
    /\ item = 1
    /\ exc = "none"
    /\ manifest_name = NoName
    /\ found_data = TRUE
    /\ product_list = <<>>
    /\ mfile_list = <<>>
    /\ grism_product_list = <<>>
    /\ ramp_product_list = <<>>
    /\ return_value = IntVal(0)
    /\ files = {}
    /\ manifest = [written |-> FALSE, lines |-> <<>>]
    /\ trailers = {}
    /\ calls = <<>>
    /\ finalized = 0

PruneCatalog ==
    /\ pc = "PRUNE"
    /\ catalog_args' = [catalog_args EXCEPT
                           !.source_cat = prune(@, catalog_args.dtype,
                                                catalog_args.flag_trim_value),
                           !.pruned = TRUE]
    /\ pc' = "PRUNE_DONE"
    /\ UNCHANGED <<rows, hdus, diagnostic_mode, item, exc, total_obj_list, manifest_name,
                   found_data, product_list, mfile_list, grism_product_list,
                   ramp_product_list, return_value, files, manifest, trailers, calls,
                   finalized, env_error>>

PruneNext == PruneCatalog

PruneSpec == PruneInit /\ [][PruneNext]_vars

Discardable(row, flag_trim_value) ==
    \A col \in DOMAIN row.flags :
        row.flags[col].masked \/ row.flags[col].value > flag_trim_value
PruneStep == pc = "PRUNE" /\ pc' = "PRUNE_DONE"

\* C26: for each catalog type, a row of the total catalog is removed if and
\* only if in every Flags_<filter> column its value exceeds the flag trim
\* threshold or is masked; the other rows are retained in their order.
C26_Prune ==
    [][PruneStep =>
          catalog_args'.source_cat =
              SelectSeq(catalog_args.source_cat,
                        LAMBDA row : ~Discardable(row, catalog_args.flag_trim_value))]_vars

\* The rule holds in a table whose flag columns are floating-point numbers.
PruneOfFloatColumns ==
    [][(PruneStep /\ catalog_args.dtype = "float64") =>
          catalog_args'.source_cat =
              SelectSeq(catalog_args.source_cat,
                        LAMBDA row : ~Discardable(row, catalog_args.flag_trim_value))]_vars

\* In a table whose flag columns are integers a row is removed if and only if
\* every flag exceeds the threshold: a masked flag keeps the row.
PruneOfIntegerColumns ==
    [][(PruneStep /\ catalog_args.dtype = "int64") =>
          catalog_args'.source_cat =
              SelectSeq(catalog_args.source_cat,
                        LAMBDA row : \E col \in DOMAIN row.flags :
                            \/ row.flags[col].masked
                            \/ row.flags[col].value <= catalog_args.flag_trim_value)]_vars

\* A row with Flags_F606W = 6 and a masked Flags_F814W, both integers, has
\* been retained.
DiscardableRowRetained ==
    /\ pc = "PRUNE_DONE"
    /\ catalog_args.dtype = "int64"
    /\ \E i \in 1..Len(catalog_args.source_cat) :
           /\ catalog_args.source_cat[i].flags["Flags_F606W"] = Flag(6)
           /\ catalog_args.source_cat[i].flags["Flags_F814W"] = MaskedFlag

-----------------------------------------------------------------------------
(* Properties of create_catalog_products: the names returned *)

CatalogKinds == {"point-cat", "segment-cat"}
ReturnedCatalogs ==
    {product_list[i] : i \in {j \in 1..Len(product_list) : product_list[j].kind \in CatalogKinds}}

\* C27: the catalog filenames returned by create_catalog_products are the
\* catalog files that were emitted: a name of a type is in the list only if
\* the type is selected by phot_mode and its catalog was not rejected.
C27_ReturnedCatalogsEmitted ==
    /\ ReturnedCatalogs \subseteq files
    /\ \A name \in ReturnedCatalogs :
           /\ catalog_args.called
           /\ name.kind = "point-cat" => "aperture" \in CatalogTypes(catalog_args.phot_mode)
           /\ name.kind = "segment-cat" => "segment" \in CatalogTypes(catalog_args.phot_mode)

\* The returned names are those of the types phot_mode selects, and every
\* emitted catalog file is returned once the stage has completed.
ReturnedCatalogsSelected ==
    /\ \A name \in ReturnedCatalogs :
           /\ catalog_args.called
           /\ name.kind = "point-cat" => "aperture" \in CatalogTypes(catalog_args.phot_mode)
           /\ name.kind = "segment-cat" => "segment" \in CatalogTypes(catalog_args.phot_mode)
    /\ pc = "QA" => {f \in files : f.kind \in CatalogKinds} \subseteq ReturnedCatalogs

\* A rejected catalog has been returned for the manifest and was not written.
RejectedCatalogReturned ==
    /\ pc = "QA"
    /\ ~diagnostic_mode
    /\ \E name \in ReturnedCatalogs : name \notin files
    /\ \E i \in 1..Len(calls) : calls[i].op = "write" /\ calls[i].status = "ok-rejecting"

-----------------------------------------------------------------------------
(* Properties of FINALIZE: the manifest name when parsing failed *)

\* C28: when parsing failed, FINALIZE synthesizes the manifest name from the
\* primary header of the first input exposure; when that fails too it falls
\* back to a generic name, and it completes its remaining steps (the log is
\* removed, the failure status is returned) without raising.
C28_FallbackCompletes ==
    (finalized = 1 /\ ~ParseSucceeded) =>
        /\ pc = "RETURNED"
        /\ manifest_name \in {SynthManifest, GenericManifest}
        /\ LogName \notin files
        /\ return_value = HandleException

\* What does hold: the name is synthesized when the header can be read, the
\* generic name is used for an input that is neither a string nor a list, and
\* in both cases FINALIZE runs to its end.
FallbackWhenReadable ==
    (finalized = 1 /\ ~ParseSucceeded /\ ~Raised) =>
        /\ pc = "RETURNED"
        /\ manifest_name \in {SynthManifest, GenericManifest}
        /\ manifest_name = GenericManifest => ~manifest.written
        /\ LogName \notin files
        /\ return_value = HandleException

\* Parsing failed and the first input could not be read: FINALIZE raised.
UnreadableInputRaised ==
    /\ Raised
    /\ ~ParseSucceeded
    /\ manifest_name = NoName
    /\ ~manifest.written

-----------------------------------------------------------------------------
(* resetbits: reset_dq_bits *)

\* dqarr & ~bits on non-negative integers.
RECURSIVE and_not(_, _)
and_not(dqarr, bits) ==
    IF dqarr = 0 THEN 0
    ELSE (dqarr % 2) * (1 - (bits % 2)) + 2 * and_not(dqarr \div 2, bits \div 2)

\* The extver argument: None, one number or a list of numbers.
ExtverNone == [kind |-> "None", list |-> <<>>]
ExtverInt(n) == [kind |-> "int", list |-> <<n>>]
ExtverList(l) == [kind |-> "list", list |-> l]

\* An HDU: EXTNAME, EXTVER (0: the header has no EXTVER) and its array.
FitsHdu(extname, extver, data) == [extname |-> extname, extver |-> extver, data |-> data]

\* Lines 128-133: the EXTVER of the extensions whose EXTNAME matches extname.
matching_extver(p, extname) ==
    LET matching == SelectSeq(p, LAMBDA hdu :
                        hdu.extver > 0 /\ str_lower(hdu.extname) = str_lower(extname))
    IN  [i \in 1..Len(matching) |-> matching[i].extver]

\* Lines 126-136: extver as the loop of line 139 finds it.
extver_list(p, extver, extname) ==
    IF extver.kind = "None" THEN ExtverList(matching_extver(p, extname))
    ELSE ExtverList(extver.list)

\* p[extname, extn]: the index of the HDU, 0 when there is none (KeyError).
hdu_index(p, extname, extn) ==
    IF \E i \in 1..Len(p) : str_lower(p[i].extname) = str_lower(extname) /\ p[i].extver = extn
      THEN CHOOSE i \in 1..Len(p) :
               str_lower(p[i].extname) = str_lower(extname) /\ p[i].extver = extn
      ELSE 0

\* Lines 139-145 on one open file: the arrays after the loop, and whether
\* p[extname, extn] raised.
RECURSIVE reset_extensions(_, _, _, _)
reset_extensions(p, bits, extver, extname) ==
    IF extver = <<>> THEN [p |-> p, raised |-> FALSE]
    ELSE LET i == hdu_index(p, extname, Head(extver))
         IN  IF i = 0 THEN [p |-> p, raised |-> TRUE]
             ELSE reset_extensions([p EXCEPT ![i].data = and_not(@, bits)], bits,
                                   Tail(extver), extname)

\* reset_dq_bits(input, bits, extver, extname) on the files of flist, lines
\* 119-147.  extver is assigned in the loop of line 120, so the list built for
\* one file is the extver of the next.  A file left open by an exception is
\* not closed: its arrays on disk are the updated ones (flushed) or the
\* original ones.
RECURSIVE reset_dq_bits(_, _, _, _, _)
reset_dq_bits(flist, bits, extver, extname, flushed) ==
    IF flist = <<>> THEN [flist |-> <<>>, raised |-> FALSE]
    ELSE LET p == Head(flist)
             ev == extver_list(p, extver, extname)
             r == reset_extensions(p, bits, ev.list, extname)
             rest == reset_dq_bits(Tail(flist), bits, ev, extname, flushed)
         IN  IF r.raised
               THEN [flist |-> <<IF flushed THEN r.p ELSE p>> \o Tail(flist), raised |-> TRUE]
               ELSE [flist |-> <<r.p>> \o rest.flist, raised |-> rest.raised]

\* Most files in one input, and most chips (SCI and DQ extensions) in a file.
MaxFiles == 2
MaxChips == 2

SCI == <<"S", "C", "I">>
DQ == <<"D", "Q">>
DqValues == {1, 3}
ResetBits == {1, 2}
ExtnameArguments == {<<"d", "q">>, DQ}
ExtverArguments == {ExtverNone, ExtverInt(1)}

\* A file of n chips: the primary HDU, then SCI and DQ of each chip.
FitsFile(dq) ==
    <<FitsHdu(<<>>, 0, 0)>>
        \o Concat([k \in 1..Len(dq) |-> <<FitsHdu(SCI, k, 3), FitsHdu(DQ, k, dq[k])>>])
FitsFiles == {FitsFile(dq) : dq \in UNION {[1..n -> DqValues] : n \in 1..MaxChips}}

\* hdus holds the files the input expands to, each the sequence of its HDUs.
ResetInit ==
    /\ hdus \in UNION {[1..n -> FitsFiles] : n \in 1..MaxFiles}
    /\ rows = <<>>
    /\ total_obj_list = <<>>
    /\ catalog_args = NotCalled
    /\ diagnostic_mode = FALSE
    /\ pc = "RESET"
    /\ env_error = NoSwitch
    /\ item = 1
    /\ exc = "none"
    /\ manifest_name = NoName
    /\ found_data = FALSE
    /\ product_list = <<>>
    /\ mfile_list = <<>>
    /\ grism_product_list = <<>>
    /\ ramp_product_list = <<>>
    /\ return_value = IntVal(0)
    /\ files = {}
    /\ manifest = [written |-> FALSE, lines |-> <<>>]
    /\ trailers = {}
    /\ calls = <<>>
    /\ finalized = 0

\* One call of reset_dq_bits; its event holds extname (det), the kind of
\* extver (filt), bits (n) and how the call ended.
ResetDqBits ==
    /\ pc = "RESET"
    /\ \E bits \in ResetBits, extver \in ExtverArguments, extname \in ExtnameArguments,
          flushed \in BOOLEAN :
         LET r == reset_dq_bits(hdus, bits, extver, extname, flushed)
         IN  /\ hdus' = r.flist
             /\ calls' = Append(calls, [op |-> "reset_dq_bits", det |-> extname,
                                        filt |-> extver.kind, n |-> bits,
                                        status |-> IF r.raised THEN "raised" ELSE "ok"])
             /\ exc' = IF r.raised THEN "Exception" ELSE exc
             /\ pc' = IF r.raised THEN "RESET_RAISED" ELSE "RESET_DONE"
    /\ UNCHANGED <<rows, diagnostic_mode, item, total_obj_list, manifest_name, found_data,
                   product_list, mfile_list, grism_product_list, ramp_product_list,
                   catalog_args, return_value, files, manifest, trailers, finalized,
                   env_error>>

ResetNext == ResetDqBits

ResetSpec == ResetInit /\ [][ResetNext]_vars

ResetOfAll == pc = "RESET" /\ pc' # "RESET" /\ calls'[1].filt = "None"
Matches(hdu, extname) == hdu.extver > 0 /\ str_lower(hdu.extname) = str_lower(extname)
AllMatchingReset ==
    \A f \in 1..Len(hdus) : \A i \in 1..Len(hdus[f]) :
        hdus'[f][i] = IF Matches(hdus[f][i], calls'[1].det)
                        THEN [hdus[f][i] EXCEPT !.data = and_not(@, calls'[1].n)]
                        ELSE hdus[f][i]
SameChips == \A f \in 1..Len(hdus) : Len(hdus[f]) = Len(hdus[1])

\* C29: reset_dq_bits with extver=None resets the bits, in every file of the
\* input, in all extensions whose EXTNAME matches extname case-insensitively
\* and in no other extension, also when the files have different numbers of
\* matching extensions.
C29_AllFilesReset ==
    [][ResetOfAll => (pc' = "RESET_DONE" /\ AllMatchingReset)]_vars

\* What does hold: it is so when every file has the extensions of the first.
ResetWhenSameChips ==
    [][(ResetOfAll /\ SameChips) => (pc' = "RESET_DONE" /\ AllMatchingReset)]_vars

\* The first file has one DQ array and the second has two: the call returned
\* and the second DQ array of the second file holds its bits.
SecondDqArrayNotReset ==
    /\ pc = "RESET_DONE"
    /\ calls[1].filt = "None"
    /\ calls[1].n = 1
    /\ Len(hdus) = 2
    /\ Len(hdus[1]) = 3
    /\ Len(hdus[2]) = 5
    /\ hdus[2][5].extname = DQ
    /\ hdus[2][5].data % 2 = 1

\* The first file has two DQ arrays and the second has one: the call raised.
MissingDqArrayRaised ==
    /\ pc = "RESET_RAISED"
    /\ calls[1].filt = "None"
    /\ Len(hdus) = 2
    /\ Len(hdus[1]) = 5
    /\ Len(hdus[2]) = 3

-----------------------------------------------------------------------------
(* Properties of collect_wcs_names: the images without any WCS solution *)

\* collect_wcs_names reads image i of the list: sys.exit(1) has not ended the
\* loop at an earlier image.
Examined(edp_list, i) == ~RunsOut(SubSeq(edp_list, 1, i - 1))
GrismExamined(i) == Examined(GrismImages, i)
DirectExamined(i) ==
    /\ ~RunsOut(GrismImages)
    /\ \E nm \in CommonNames(GrismImages) : MatchesPreference(nm)
    /\ Examined(DirectImages, i)
CallEnded == pc \in {"WCS_DONE", "WCS_EXIT"}

\* C30: a grism image that has no WCS solution at all is deleted from disk and
\* removed from the grism list of the TotalProduct; a direct image that has no
\* WCS solution is only skipped: it is neither deleted nor removed from the
\* list of direct exposures.
C30_ImagesWithoutWcs ==
    CallEnded =>
        /\ \A i \in 1..Len(GrismImages) :
               (GrismExamined(i) /\ ~HoldsNames(GrismImages[i])) =>
                   /\ FullFilename(GrismImages[i]) \notin files
                   /\ GrismImages[i] \notin Range(total_obj_list[1].grism_edp_list)
        /\ \A i \in 1..Len(DirectImages) :
               (DirectExamined(i) /\ ~HoldsNames(DirectImages[i])) =>
                   /\ FullFilename(DirectImages[i]) \in files
                   /\ DirectImages[i] \in Range(total_obj_list[1].edp_list)
                   /\ \A k \in CallIndices : calls[k].n # DirectImages[i].n

\* What does hold: the grism image is deleted from disk, is not listed for the
\* manifest and its active WCS is not rewritten, but it stays in the grism
\* list; the direct image is kept on disk and in its list.
ImagesWithoutWcsSkipped ==
    CallEnded =>
        /\ \A i \in 1..Len(GrismImages) :
               (GrismExamined(i) /\ ~HoldsNames(GrismImages[i])) =>
                   /\ FullFilename(GrismImages[i]) \notin files
                   /\ GrismImages[i] \in Range(total_obj_list[1].grism_edp_list)
                   /\ ~InList(GrismImages[i])
                   /\ \A k \in CallIndices : calls[k].n # GrismImages[i].n
        /\ \A i \in 1..Len(DirectImages) :
               (DirectExamined(i) /\ ~HoldsNames(DirectImages[i])) =>
                   /\ FullFilename(DirectImages[i]) \in files
                   /\ DirectImages[i] \in Range(total_obj_list[1].edp_list)
                   /\ \A k \in CallIndices : calls[k].n # DirectImages[i].n

\* The call returned; a grism image without WCS solution is gone from disk and
\* is still a member of the grism list.
DeletedGrismImageStillListed ==
    /\ pc = "WCS_DONE"
    /\ \E g \in Range(total_obj_list[1].grism_edp_list) :
           /\ ~HoldsNames(g)
           /\ FullFilename(g) \notin files
    /\ \E g \in Range(total_obj_list[1].grism_edp_list) : InList(g)

-----------------------------------------------------------------------------
(* Properties of collect_wcs_names: no name common to the images of a group *)

\* The images of a group hold WCS solutions and no name is common to them:
\* collect_wcs_names reaches line 1206 with an empty set, on the grism images
\* or, when these were collected and hold a preferred name, on the direct ones.
GrismRunsOut == RunsOut(GrismImages)
DirectRunsOut ==
    /\ ~RunsOut(GrismImages)
    /\ \E nm \in CommonNames(GrismImages) : MatchesPreference(nm)
    /\ RunsOut(DirectImages)

\* C31: when the images of one group have WCS solutions but no solution name
\* common to all of them, reconciliation is aborted for that group only: no
\* active WCS of the group is rewritten and the run continues instead of
\* terminating.
C31_AbortedForGroupOnly ==
    [][(pc = "WCS" /\ (GrismRunsOut \/ DirectRunsOut)) =>
          /\ pc' = "WCS_DONE"
          /\ exc' = "none"
          /\ \A n \in DOMAIN hdus : hdus'[n].wcsname = hdus[n].wcsname]_vars

\* What does hold: no active WCS is rewritten and nothing is listed, and the
\* call ends with sys.exit(1).
NoCommonNameExits ==
    [][(pc = "WCS" /\ (GrismRunsOut \/ DirectRunsOut)) =>
          /\ pc' = "WCS_EXIT"
          /\ exc' = "SystemExit"
          /\ calls' = calls
          /\ grism_product_list' = <<>>
          /\ \A n \in DOMAIN hdus : hdus'[n].wcsname = hdus[n].wcsname]_vars

\* The grism images hold solutions without a common name: the call has ended
\* with SystemExit.
NoCommonGrismNameExited ==
    /\ pc = "WCS_EXIT"
    /\ exc = "SystemExit"
    /\ GrismRunsOut
    /\ \A g \in Range(GrismImages) : HoldsNames(g)

-----------------------------------------------------------------------------
(* archive_alternate_wcs alone, on files with duplicate solution names *)

\* Most calls of archive_alternate_wcs on the one file.
MaxArchiveCalls == 2

\* A solution refit in a later run is stored under the name of the earlier
\* one with '-<digit>' appended.
IDC_PLAIN_1 == IDC_PLAIN \o <<"-", "1">>
IDC_GSC240_1 == IDC_GSC240 \o <<"-", "1">>
ArchiveNames == {IDC_PLAIN, IDC_PLAIN_1, IDC_GSC240, IDC_GSC240_1}
ArchiveHdus ==
    {Hdu(w, a, o, hl, {}, "COMPLETE") :
        w \in ArchiveNames, a \in SUBSET (ArchiveNames \ {IDC_GSC240}), o \in BOOLEAN,
        hl \in SUBSET (ArchiveNames \ {IDC_GSC240_1})}

ArchiveInit ==
    /\ rows = <<[detector |-> "uvis", filters |-> F555W]>>
    /\ hdus \in {<<hdu>> : hdu \in {h \in ArchiveHdus : WellFormedHdu(h)}}
    /\ diagnostic_mode = FALSE
    /\ pc = "ARCHIVE"
    /\ env_error = NoSwitch
    /\ item = 1
    /\ exc = "none"
    /\ total_obj_list = <<>>
    /\ manifest_name = NoName
    /\ found_data = FALSE
    /\ product_list = <<>>
    /\ mfile_list = <<>>
    /\ grism_product_list = <<>>
    /\ ramp_product_list = <<>>
    /\ catalog_args = NotCalled
    /\ return_value = IntVal(0)
    /\ files = {FullFilename(Exposure(rows, 1))}
    /\ manifest = [written |-> FALSE, lines |-> <<>>]
    /\ trailers = {}
    /\ calls = <<>>
    /\ finalized = 0

\* One call archive_alternate_wcs(filename); the event counts the headerlets
\* the call created.
ArchiveAlternateWcs ==
    /\ pc = "ARCHIVE"
    /\ Len(calls) < MaxArchiveCalls
    /\ LET archived == archive_alternate_wcs(hdus[1])
       IN  /\ hdus' = [hdus EXCEPT ![1] = archived]
           /\ calls' = Append(calls,
                  [op |-> "archive_alternate_wcs", det |-> "uvis", filt |-> F555W,
                   n |-> Cardinality(archived.headerlets \ hdus[1].headerlets),
                   status |-> "ok"])
    /\ UNCHANGED <<rows, diagnostic_mode, pc, item, exc, total_obj_list, manifest_name,
                   found_data, product_list, mfile_list, grism_product_list,
                   ramp_product_list, catalog_args, return_value, files, manifest,
                   trailers, finalized, env_error>>

ArchiveNext == ArchiveAlternateWcs

ArchiveSpec == ArchiveInit /\ [][ArchiveNext]_vars

\* The solution has an archived record under its name, or under the name it
\* is a '-<digit>' duplicate of.
Retrievable(wcsname, headerlets) ==
    \/ wcsname \in headerlets
    \/ \E h \in headerlets : pattern_match(h, wcsname)
ArchiveStep == pc = "ARCHIVE" /\ Len(calls') = Len(calls) + 1

-----------------------------------------------------------------------------
(* Properties of update_active_wcs: the fit-quality keywords *)

ActiveStep == pc = "ACTIVE" /\ Len(calls') = Len(calls) + 1
ActiveReturned == calls'[Len(calls')].status # "raised"

\* C33 (as amended): whenever update_active_wcs has restored a solution as the
\* active WCS and that solution is 'a priori', none of the fit-quality
\* keywords is present in the SCI header afterwards; when the restored
\* solution is not a priori the keywords are not deleted (NMATCHES is
\* written); a call that restores nothing leaves the keywords as they were.
C33_FitKeywordsAfterRestore ==
    [][ActiveStep =>
          /\ calls'[Len(calls')].status = "restored" =>
                 /\ hdus'[1].wcsname = calls'[Len(calls')].filt
                 /\ hdus'[1].fit_keywords = ~is_apriori(hdus'[1].wcsname)
          /\ calls'[Len(calls')].status # "restored" =>
                 /\ hdus'[1].fit_keywords = hdus[1].fit_keywords
                 /\ hdus'[1].wcsname = hdus[1].wcsname]_vars

\* C33: whenever update_active_wcs returns and the active WCS is a priori,
\* none of the fit-quality keywords is present; when the active WCS is not a
\* priori, none of them is deleted.
C33_NoStaleFitKeywords ==
    [][(ActiveStep /\ ActiveReturned) =>
          /\ is_apriori(hdus'[1].wcsname) => ~hdus'[1].fit_keywords
          /\ ~is_apriori(hdus'[1].wcsname) => (hdus[1].fit_keywords => hdus'[1].fit_keywords)]_vars

\* The GSC240 solution has been restored over a fitted one: the keywords are gone.
C33_Witness ==
    /\ pc = "ACTIVE"
    /\ Len(calls) = 1
    /\ calls[1].status = "restored"
    /\ calls[1].filt = IDC_GSC240
    /\ hdus[1].wcsname = IDC_GSC240
    /\ ~hdus[1].fit_keywords

\* The a priori solution was the active one already: the call returned and the
\* keywords are still present.
StaleKeywordsKept ==
    /\ pc = "ACTIVE"
    /\ Len(calls) = 1
    /\ calls[1].status = "active"
    /\ is_apriori(hdus[1].wcsname)
    /\ hdus[1].fit_keywords

-----------------------------------------------------------------------------
(* create_catalog_products on the product trees of a visit *)

\* The TotalProducts as the catalog stage receives them: the ramp products
\* have been deleted from their lists (lines 633-636).
CatalogTotals(rs) == SeqOf(LAMBDA t : exclude_ramps(t).total_item, interpret_obset_input(rs))

\* The stage is reached only when the visit held viable data (lines 584-590).
CatalogInit ==
    /\ rows \in {rs \in RowSeqs : FoundData(interpret_obset_input(rs))}
    /\ diagnostic_mode \in BOOLEAN
    /\ pc = "CATALOG"
    /\ env_error = NoSwitch
    /\ hdus = <<>>
    /\ item = 1
    /\ exc = "none"
    /\ total_obj_list = CatalogTotals(rows)
    /\ manifest_name = VisitManifest
    /\ found_data = TRUE
    /\ product_list = <<>>
    /\ mfile_list = <<>>
    /\ grism_product_list = <<>>
    /\ ramp_product_list = <<>>
    /\ catalog_args = NotCalled
    /\ return_value = IntVal(0)
    /\ files = {LogName} \cup {FullFilename(Exposure(rows, i)) : i \in 1..Len(rows)}
    /\ manifest = [written |-> FALSE, lines |-> <<>>]
    /\ trailers = {}
    /\ calls = <<>>
    /\ finalized = 0

CatalogNext == CreateCatalogProducts

CatalogSpec == CatalogInit /\ [][CatalogNext]_vars

CatalogEventsOf(t) ==
    {i \in 1..Len(calls) : calls[i].op \in CatalogOps /\ calls[i].det = t.detector}

CatalogNamesOf(t) ==
    {PointCatFilename(p) : p \in {Pid(t)} \cup {Pid(f) : f \in Range(t.fdp_list)}}
        \cup {SegmentCatFilename(p) : p \in {Pid(t)} \cup {Pid(f) : f \in Range(t.fdp_list)}}

SwitchedOn(t) == t.detector \notin catalog_args.off

\* C34: create_catalog_products enters the catalog processing of a
\* TotalProduct exactly when it has at least one direct exposure and the
\* catalog switch of its detector is on; for a product not entered no
\* identify, measure, flag, combine, verify or write call is made and no
\* catalog filename of it is returned, while the other TotalProducts are
\* still processed.
C34_CatalogEntered ==
    catalog_args.called =>
        \A k \in 1..Len(total_obj_list) :
            LET t == total_obj_list[k]
            IN  /\ ~(t.edp_list # <<>> /\ SwitchedOn(t)) =>
                       /\ CatalogEventsOf(t) = {}
                       /\ CatalogNamesOf(t) \cap Range(product_list) = {}
                /\ (t.edp_list # <<>> /\ SwitchedOn(t) /\ exc = "none") =>
                       /\ \A op \in {"identify", "verify_crthresh", "write"} :
                              \E i \in CatalogEventsOf(t) :
                                  calls[i].op = op /\ calls[i].filt = NoFilter
                       /\ \A f \in Range(t.fdp_list) :
                              \A op \in {"measure", "run_sourcelist_flagging", "combine", "write"} :
                                  \E i \in CatalogEventsOf(t) :
                                      calls[i].op = op /\ calls[i].filt = f.filters
                       /\ {nm \in CatalogNamesOf(t) :
                              \/ nm.kind = "point-cat"
                                   /\ "aperture" \in CatalogTypes(catalog_args.phot_mode)
                              \/ nm.kind = "segment-cat"
                                   /\ "segment" \in CatalogTypes(catalog_args.phot_mode)}
                            \subseteq Range(product_list)

\* The switch of the first detector is off and the second TotalProduct has
\* been processed to its write; a third state has a TotalProduct of grism
\* exposures only.
C34_Witness ==
    /\ catalog_args.called
    /\ exc = "none"
    /\ Len(total_obj_list) = 2
    /\ total_obj_list[1].edp_list # <<>>
    /\ ~SwitchedOn(total_obj_list[1])
    /\ SwitchedOn(total_obj_list[2])
    /\ \E i \in CatalogEventsOf(total_obj_list[2]) : calls[i].op = "write"
    /\ PointCatFilename(Pid(total_obj_list[2])) \in Range(product_list)

WritesOf(t) == {i \in CatalogEventsOf(t) : calls[i].op = "write"}
VerifiesOf(t) == {i \in CatalogEventsOf(t) : calls[i].op = "verify_crthresh"}

\* C35: in diagnostic mode the reject decision passed to every filter and
\* total catalog write is 'not rejected' for every catalog type, whatever
\* verify_crthresh returned; outside diagnostic mode it is exactly what
\* verify_crthresh returned for the TotalProduct.
C35_RejectDecision ==
    \A k \in 1..Len(total_obj_list) :
        \A i \in WritesOf(total_obj_list[k]) :
            /\ calls[i].status # "raised" =>
                   /\ diagnostic_mode => calls[i].status = "ok"
                   /\ ~diagnostic_mode =>
                          \E j \in VerifiesOf(total_obj_list[k]) :
                              j < i /\ calls[j].status = calls[i].status

\* In diagnostic mode verify_crthresh has rejected the segment catalog and the
\* writes were handed 'not rejected'.
C35_Witness ==
    /\ diagnostic_mode
    /\ exc = "none"
    /\ \E i, j \in 1..Len(calls) :
           /\ calls[j].op = "verify_crthresh" /\ calls[j].status = "ok-rejecting-segment"
           /\ calls[i].op = "write" /\ calls[i].det = calls[j].det /\ j < i
           /\ calls[i].status = "ok"

-----------------------------------------------------------------------------
(* run_sourcelist_flagging *)

MaxFlagCalls == 2
MaxFlagRows == 1

\* catalog_data of one catalog type as measure left it: None, or a table of
\* len rows; flagged_with is the mask the flagging engine was given (0: the
\* table has not been flagged).
NoCatalog == [none |-> TRUE, len |-> 0, flagged_with |-> 0]
MeasuredCatalogs ==
    {NoCatalog} \cup {[none |-> FALSE, len |-> n, flagged_with |-> 0] : n \in 0..MaxFlagRows}

\* The FilterProducts of one detector; has_msk: the object has the attribute
\* hla_flag_msk, which a FilterProduct is constructed without.
FlagFilterProducts ==
    <<[n |-> 0, detector |-> "uvis", filters |-> F555W, has_msk |-> FALSE, hla_flag_msk |-> 0],
      [n |-> 0, detector |-> "uvis", filters |-> F814W, has_msk |-> FALSE, hla_flag_msk |-> 0]>>

\* A faulty test: every catalog that is not None is flagged.
flaggable_when_empty(catalog_data) == ~catalog_data.none

\* Line 937: the catalogs the engine is called for.
flaggable(catalog_data) == ~catalog_data.none /\ catalog_data.len > 0

\* hla_flag_filter.run_source_list_flagging: the table with its flags set from
\* the mask.
run_source_list_flagging(catalog_data, hla_flag_msk) ==
    [catalog_data EXCEPT !.flagged_with = hla_flag_msk]

\* Lines 892-956. mask_id: the mask make_mask_array would build now.
run_sourcelist_flagging(filter_product_obj, catalogs, mask_id) ==
    LET made == ~filter_product_obj.has_msk
        obj == IF made
                 THEN [filter_product_obj EXCEPT !.has_msk = TRUE, !.hla_flag_msk = mask_id]
                 ELSE filter_product_obj
        types == SelectSeq(<<"aperture", "segment">>, LAMBDA ct : ct \in DOMAIN catalogs)
        flagged == SelectSeq(types, LAMBDA ct : flaggable(catalogs[ct]))
    IN  [filter_product_obj |-> obj,
         catalogs |-> [ct \in DOMAIN catalogs |->
                          IF flaggable(catalogs[ct])
                            THEN run_source_list_flagging(catalogs[ct], obj.hla_flag_msk)
                            ELSE catalogs[ct]],
         events |-> <<Event("run_sourcelist_flagging", obj, "ok")>>
                    \o (IF made THEN <<[Event("make_mask_array", obj, "ok") EXCEPT !.n = mask_id]>>
                        ELSE <<>>)
                    \o SeqOf(LAMBDA ct : [Event("run_source_list_flagging", obj, ct)
                                              EXCEPT !.n = obj.hla_flag_msk], flagged)]

FlagInit ==
    /\ total_obj_list = FlagFilterProducts
    /\ catalog_args = [called |-> FALSE, phot_mode |-> "", off |-> {}, k |-> 0,
                       measured |-> <<>>, source_cat |-> <<>>]
    /\ diagnostic_mode \in BOOLEAN
    /\ item = 1
    /\ pc = "FLAG"
    /\ rows = <<>>
    /\ hdus = <<>>
    /\ env_error = NoSwitch
    /\ exc = "none"
    /\ manifest_name = NoName
    /\ found_data = TRUE
    /\ product_list = <<>>
    /\ mfile_list = <<>>
    /\ grism_product_list = <<>>
    /\ ramp_product_list = <<>>
    /\ return_value = IntVal(0)
    /\ files = {}
    /\ manifest = [written |-> FALSE, lines |-> <<>>]
    /\ trailers = {}
    /\ calls = <<>>
    /\ finalized = 0

FlagCalls == {i \in 1..Len(calls) : calls[i].op = "run_sourcelist_flagging"}

\* One call of run_sourcelist_flagging (line 259) for a FilterProduct and the
\* catalogs measure has just filled.
RunSourcelistFlagging ==
    /\ pc = "FLAG"
    /\ Cardinality(FlagCalls) < MaxFlagCalls
    /\ \E k \in 1..Len(total_obj_list), pm \in PhotModes :
       \E measured \in [CatalogTypes(pm) -> MeasuredCatalogs] :
         LET r == run_sourcelist_flagging(total_obj_list[k], measured, item)
         IN  /\ total_obj_list' = [total_obj_list EXCEPT ![k] = r.filter_product_obj]
             /\ catalog_args' = [called |-> TRUE, phot_mode |-> pm, off |-> {}, k |-> k,
                                 measured |-> measured, source_cat |-> r.catalogs]
             /\ item' = IF total_obj_list[k].has_msk THEN item ELSE item + 1
             /\ calls' = calls \o r.events
    /\ UNCHANGED <<rows, hdus, diagnostic_mode, pc, exc, manifest_name, found_data,
                   product_list, mfile_list, grism_product_list, ramp_product_list,
                   return_value, files, manifest, trailers, finalized, env_error>>

FlagNext == RunSourcelistFlagging

FlagSpec == FlagInit /\ [][FlagNext]_vars

FlagStep == pc = "FLAG" /\ Len(calls') > Len(calls)
NewEvents == {i \in (Len(calls) + 1)..Len(calls') : TRUE}
EngineEvents(filt) ==
    {i \in 1..Len(calls) : calls[i].op = "run_source_list_flagging" /\ calls[i].filt = filt}
MaskEvents(filt) ==
    {i \in 1..Len(calls) : calls[i].op = "make_mask_array" /\ calls[i].filt = filt}

\* C36: in run_sourcelist_flagging the flagging engine is not invoked for a
\* catalog type whose measured catalog is empty or missing and that catalog
\* is passed through unchanged, while the other catalog types of the same
\* filter product are still flagged; the flag mask is computed at most once
\* per filter product and the same mask is used for every catalog type and
\* every later call for that product.
C36_Flagging ==
    /\ [][FlagStep =>
            LET k == catalog_args'.k
                measured == catalog_args'.measured
                source_cat == catalog_args'.source_cat
            IN  /\ \A ct \in DOMAIN measured :
                       /\ (measured[ct].none \/ measured[ct].len = 0) =>
                              /\ source_cat[ct] = measured[ct]
                              /\ \A i \in NewEvents :
                                     ~(calls'[i].op = "run_source_list_flagging"
                                         /\ calls'[i].status = ct)
                       /\ ~(measured[ct].none \/ measured[ct].len = 0) =>
                              /\ source_cat[ct] = [measured[ct] EXCEPT
                                     !.flagged_with = total_obj_list'[k].hla_flag_msk]
                              /\ \E i \in NewEvents :
                                     /\ calls'[i].op = "run_source_list_flagging"
                                     /\ calls'[i].status = ct
                                     /\ calls'[i].n = total_obj_list'[k].hla_flag_msk
                /\ total_obj_list[k].has_msk =>
                       total_obj_list'[k].hla_flag_msk = total_obj_list[k].hla_flag_msk
                /\ total_obj_list'[k].has_msk]_vars
    /\ [](\A f \in Range(total_obj_list) :
              /\ Cardinality(MaskEvents(f.filters)) <= 1
              /\ \A i \in EngineEvents(f.filters) :
                     /\ f.has_msk
                     /\ calls[i].n = f.hla_flag_msk
                     /\ \E j \in MaskEvents(f.filters) : j < i /\ calls[j].n = calls[i].n)

\* The second call for the f555w product: its aperture catalog is empty and is
\* passed through, its segment catalog is flagged with the mask of the first
\* call.
C36_Witness ==
    /\ Cardinality(FlagCalls) = 2
    /\ \A i \in FlagCalls : calls[i].filt = F555W
    /\ catalog_args.phot_mode = "both"
    /\ catalog_args.measured["aperture"] = [none |-> FALSE, len |-> 0, flagged_with |-> 0]
    /\ catalog_args.source_cat["aperture"] = catalog_args.measured["aperture"]
    /\ catalog_args.source_cat["segment"].flagged_with = total_obj_list[1].hla_flag_msk
    /\ Cardinality(EngineEvents(F555W)) >= 2
    /\ Cardinality(MaskEvents(F555W)) = 1

-----------------------------------------------------------------------------
(* The product tree of parse_obset_tree under the ramp exclusion *)

MaxTreeRows == 3
MaxExcludeCalls == 2

RawFR388N == <<"F", "R", "3", "8", "8", "N">>
TreeRow == [detector : {UVIS, IR}, filters : {RawF555W, RawF606W, RawFR388N}, suffix : {"flc"}]

TreeInit ==
    /\ rows \in UNION {[1..n -> TreeRow] : n \in 1..MaxTreeRows}
    /\ hdus = <<>>
    /\ diagnostic_mode = FALSE
    /\ pc = "POLLER"
    /\ env_error = NoSwitch
    /\ item = 1
    /\ exc = "none"
    /\ total_obj_list = <<>>
    /\ manifest_name = NoName
    /\ found_data = FALSE
    /\ product_list = <<>>
    /\ mfile_list = <<>>
    /\ grism_product_list = <<>>
    /\ ramp_product_list = <<>>
    /\ catalog_args = NotCalled
    /\ return_value = IntVal(0)
    /\ files = {}
    /\ manifest = [written |-> FALSE, lines |-> <<>>]
    /\ trailers = {}
    /\ calls = <<>>
    /\ finalized = 0

\* Lines 635-637 for one TotalProduct of the tree: the two calls of
\* delete_ramp_exposures and the names added to the product list.
ExcludeRamps ==
    /\ pc = "POLLER_DONE"
    /\ Len(calls) < MaxExcludeCalls
    /\ \E k \in 1..Len(total_obj_list) :
         LET r == exclude_ramps(total_obj_list[k])
         IN  /\ total_obj_list' = [total_obj_list EXCEPT ![k] = r.total_item]
             /\ ramp_product_list' = r.ramp_product_list
             /\ product_list' = product_list \o r.ramp_product_list
             /\ calls' = Append(calls, [Event("exclude_ramps", total_obj_list[k], "ok")
                                           EXCEPT !.n = Len(r.ramp_product_list)])
    /\ UNCHANGED <<rows, hdus, diagnostic_mode, pc, item, exc, manifest_name, found_data,
                   mfile_list, grism_product_list, catalog_args, return_value, files,
                   manifest, trailers, finalized, env_error>>

TreeNext == BuildAndParseObsetTree \/ ExcludeRamps

TreeSpec == TreeInit /\ [][TreeNext]_vars

ChildrenOf(t, e) == {j \in 1..Len(t.fdp_list) : e \in Range(t.fdp_list[j].edp_list)}

-----------------------------------------------------------------------------
(* Properties of the manifests of earlier runs *)

\* The names read from the manifests of earlier runs (lines 598-600).
MergedLines ==
    {File(calls[i].status, calls[i].det, calls[i].filt, calls[i].n) :
        i \in {j \in CallIndices : calls[j].op = "merge_manifest_line"}}

-----------------------------------------------------------------------------
(* Properties of the exposure times: the value of n1_exposure_time *)

-----------------------------------------------------------------------------
(* Properties of reset_dq_bits: the arrays after the call *)

ResetReturned == pc = "RESET" /\ pc' = "RESET_DONE"

\* The arrays the arguments of the call name: EXTNAME matches extname, and
\* EXTVER is the given one, or any when extver is None.
SelectedByCall(hdu) ==
    /\ Matches(hdu, calls'[1].det)
    /\ calls'[1].filt = "None" \/ hdu.extver \in Range(ExtverInt(1).list)

\* C40: reset_dq_bits replaces every pixel v of each selected array by
\* v AND (NOT bits): afterwards every named bit is 0 and the other bits keep
\* their value, so that applying it again changes nothing; the arrays of the
\* extensions not selected by extname and extver are unchanged.
C40_SelectedArraysReset ==
    [][ResetReturned =>
          \A f \in 1..Len(hdus) : \A i \in 1..Len(hdus[f]) :
              /\ hdus'[f][i].extname = hdus[f][i].extname
              /\ hdus'[f][i].extver = hdus[f][i].extver
              /\ SelectedByCall(hdus[f][i]) =>
                     /\ hdus'[f][i].data = and_not(hdus[f][i].data, calls'[1].n)
                     /\ and_not(hdus'[f][i].data, calls'[1].n) = hdus'[f][i].data
              /\ ~SelectedByCall(hdus[f][i]) => hdus'[f][i].data = hdus[f][i].data]_vars

\* What does hold: an array is either unchanged or is v AND (NOT bits), which
\* applying again leaves as it is; only selected arrays are changed; and every
\* selected array of the first file is replaced.
ResetArraysOnly ==
    [][ResetReturned =>
          /\ \A f \in 1..Len(hdus) : \A i \in 1..Len(hdus[f]) :
                 /\ hdus'[f][i].data \in {hdus[f][i].data,
                                          and_not(hdus[f][i].data, calls'[1].n)}
                 /\ and_not(and_not(hdus[f][i].data, calls'[1].n), calls'[1].n)
                        = and_not(hdus[f][i].data, calls'[1].n)
                 /\ hdus'[f][i].data # hdus[f][i].data => SelectedByCall(hdus[f][i])
          /\ \A i \in 1..Len(hdus[1]) :
                 SelectedByCall(hdus[1][i]) =>
                     hdus'[1][i].data = and_not(hdus[1][i].data, calls'[1].n)]_vars

\* The call for all DQ arrays returned: the first array of the second file
\* holds bit 1 only, its second array still holds bit 2.
SelectedArrayKeepsBits ==
    /\ pc = "RESET_DONE"
    /\ calls[1].filt = "None"
    /\ calls[1].n = 2
    /\ Len(hdus) = 2
    /\ Len(hdus[1]) = 3
    /\ Len(hdus[2]) = 5
    /\ hdus[2][3].data = 1
    /\ hdus[2][5].data = 3
====
